---- MODULE Spec2Model ----
(***************************************************************************)
(* Job pipeline of lecture-to-audio: the Job state machine (app/db.py),    *)
(* the Worker loop and process_job (app/pipeline/worker.py), submission    *)
(* and startup recovery (app/main.py).                                     *)
(*                                                                         *)
(* The durable state is the SQLite store (jobs, lectures, outputs) and the *)
(* artifact files (fs).  Everything else lives in the server process and   *)
(* is lost when the process ends.  process_job runs in a thread of its own *)
(* (asyncio.to_thread) with one SQLModel session: sess[j] holds the Job    *)
(* and Lecture objects of that session with their uncommitted changes, and *)
(* a commit copies them into the store.                                    *)
(***************************************************************************)
EXTENDS Integers, Sequences, FiniteSets, TLC

\* ---------------------------------------------------------------- bounds
MaxJobs == 2
MaxRestarts == 1
MaxTime == 1

MaxUnits == 2
MaxPages == 2
MaxChapters == 1
MaxSentences == 2
MaxTarget == 2
MaxChunks == 3
MaxSeconds == 2
MaxWindow == 3
MaxLines == 3
MaxStarts == 2

Ids == 1..MaxJobs
Times == 0..MaxTime

\* ------------------------------------------------------- app/db.py: Job
JobStatus == {"queued", "extracting", "scripting", "tts", "syncing", "done", "failed"}

LectureStatus == {"queued", "extracting", "scripting", "done", "failed"}

VALID_TRANSITIONS_terminal_escape ==
    [s \in JobStatus |->
        CASE s = "queued"     -> {"extracting", "failed"}
          [] s = "extracting" -> {"scripting", "failed"}
          [] s = "scripting"  -> {"tts", "done", "failed"}
          [] s = "tts"        -> {"syncing", "failed"}
          [] s = "syncing"    -> {"done", "failed"}
          [] s = "done"       -> {"failed"}
          [] s = "failed"     -> {}]

\* (mutant) a table in which a job that is scripting cannot fail
VALID_TRANSITIONS_scripting_stuck ==
    [s \in JobStatus |->
        CASE s = "queued"     -> {"extracting", "failed"}
          [] s = "extracting" -> {"scripting", "failed"}
          [] s = "scripting"  -> {"tts", "done"}
          [] s = "tts"        -> {"syncing", "failed"}
          [] s = "syncing"    -> {"done", "failed"}
          [] s = "done"       -> {}
          [] s = "failed"     -> {}]

VALID_TRANSITIONS ==
    [s \in JobStatus |->
        CASE s = "queued"     -> {"extracting", "failed"}
          [] s = "extracting" -> {"scripting", "failed"}
          [] s = "scripting"  -> {"tts", "done", "failed"}
          [] s = "tts"        -> {"syncing", "failed"}
          [] s = "syncing"    -> {"done", "failed"}
          [] s = "done"       -> {}
          [] s = "failed"     -> {}]

is_valid_transition(current, new) ==
    IF current \in DOMAIN VALID_TRANSITIONS
    THEN new \in VALID_TRANSITIONS[current]
    ELSE FALSE

\* (mutant) the timestamp written ahead of the check
apply_transition_stamps_first(job, new_status, now) ==
    IF ~is_valid_transition(job.status, new_status)
    THEN [raised |-> TRUE, job |-> [job EXCEPT !.updated_at = now]]
    ELSE [raised |-> FALSE,
          job |-> [job EXCEPT !.status = new_status, !.updated_at = now]]

\* (mutant) a transition that leaves updated_at alone
apply_transition_keeps_stamp(job, new_status, now) ==
    IF ~is_valid_transition(job.status, new_status)
    THEN [raised |-> TRUE, job |-> job]
    ELSE [raised |-> FALSE, job |-> [job EXCEPT !.status = new_status]]

\* apply_transition(job, new_status) with utcnow() = now: the job afterwards
\* and whether the call raised ValueError.
apply_transition(job, new_status, now) ==
    IF ~is_valid_transition(job.status, new_status)
    THEN [raised |-> TRUE, job |-> job]
    ELSE [raised |-> FALSE,
          job |-> [job EXCEPT !.status = new_status, !.updated_at = now]]

\* Worker._map_lecture_status
map_lecture_status(job_status) ==
    CASE job_status = "queued"     -> "queued"
      [] job_status = "extracting" -> "extracting"
      [] job_status = "scripting"  -> "scripting"
      [] job_status = "failed"     -> "failed"
      [] OTHER                     -> "done"

\* lectures._map_job_status
map_job_status(value) ==
    IF value \in {"queued", "extracting", "scripting"} THEN value
    ELSE IF value = "failed" THEN "failed"
    ELSE "done"

\* ------------------------------------------------------------------ state
VARIABLES
    settings,   \* app.config.settings of the running process
    jobs,       \* store: Job rows, by id
    lectures,   \* store: Lecture rows, by id
    outputs,    \* store: OutputRecord rows, as <<job id, kind>>
    fs,         \* artifact files on disk, by kind: the ids that have one
    queue,      \* Worker.queue
    task,       \* Worker._task / position of Worker.run
    stop,       \* Worker._stop
    started,    \* the startup hook has run; the server takes requests
    pc,         \* position of the process_job thread, by job id
    sess,       \* session of the process_job thread: job, lecture, pending rows
    exc,        \* the exception process_job is handling
    up,         \* the id of the upload request between its commit and its enqueue
    pre,        \* the id of the upload_preprocessed request between its writes and its commit
    restarts,   \* how many server processes have ended
    recovered,  \* history: ids the startup hook of this process put on the queue
    enqueued,   \* history: ids put on the queue by this process, in order
    dequeued,   \* history: ids taken off the queue by this process, in order
    ran,        \* history: stages that finished in the current process_job, by job id
    tjob, tnew, tnow,  \* a free-standing Job, a status and a clock reading ...
    tres,              \* ... and what apply_transition(tjob, tnew) did with them
    arg,               \* the arguments of a function called on its own, <<>> if none
    out                \* <<>>, or what that call returned

store == <<jobs, lectures, outputs, fs>>
loop == <<queue, task, stop, started>>
thread == <<pc, sess, exc>>
requests == <<up, pre>>
history == <<recovered, enqueued, dequeued, ran>>
harness == <<tjob, tnew, tnow, tres, arg, out>>
vars == <<settings, store, loop, thread, requests, restarts, history, harness>>

None == "none"

\* config.py defaults of the chunker: 15 seconds, 2.5 words a second
chunk_target_seconds == 15

chunk_words_per_second == [num |-> 5, den |-> 2]

\* The settings a server process runs under; it keeps the chunker's defaults.
Settings ==
    [openai_api_key : BOOLEAN, enable_audio_generation : BOOLEAN, enable_rss : BOOLEAN,
     chunk_target_seconds : {chunk_target_seconds},
     chunk_words_per_second : {chunk_words_per_second}]

\* config.py defaults, with an API key in the environment
DefaultSettings ==
    [openai_api_key |-> TRUE, enable_audio_generation |-> FALSE, enable_rss |-> FALSE,
     chunk_target_seconds |-> chunk_target_seconds,
     chunk_words_per_second |-> chunk_words_per_second]

Range(q) == {q[i] : i \in DOMAIN q}

NoFiles == [extracted |-> {}, script |-> {}, chunks |-> {}, audio |-> {}]

\* The ids nothing has used yet: no row, no file, no request in flight, not
\* on the queue and not in the worker's hands.
FreeIds ==
    {j \in Ids : /\ j \notin DOMAIN jobs \cup DOMAIN lectures
                 /\ j \notin fs.extracted \cup fs.script \cup fs.chunks \cup fs.audio
                 /\ j \notin up \cup pre
                 /\ j \notin Range(queue)
                 /\ pc[j] = None}

\* uuid4().hex: an id nothing uses yet (the least one, ids being interchangeable)
FreshId == CHOOSE j \in FreeIds : \A k \in FreeIds : j <= k

\* A server process right after import: Worker.__init__, nothing started.
FreshProcess ==
    /\ queue = <<>>
    /\ task = None
    /\ stop = FALSE
    /\ started = FALSE
    /\ pc = [j \in Ids |-> None]
    /\ sess = <<>>
    /\ exc = None
    /\ up = {}
    /\ pre = {}
    /\ recovered = {}
    /\ enqueued = <<>>
    /\ dequeued = <<>>
    /\ ran = [j \in Ids |-> <<>>]

HarnessIdle ==
    /\ tjob = [status |-> "queued", updated_at |-> 0]
    /\ tnew = "queued"
    /\ tnow = 0
    /\ tres = [called |-> FALSE, raised |-> FALSE, job |-> tjob]
    /\ arg = <<>>
    /\ out = <<>>

Init ==
    /\ settings \in Settings
    /\ jobs = <<>>
    /\ lectures = <<>>
    /\ outputs = {}
    /\ fs = NoFiles
    /\ restarts = 0
    /\ FreshProcess
    /\ HarnessIdle

\* ------------------------------------------------------------- helpers
Upsert(f, j, v) == [k \in DOMAIN f \cup {j} |-> IF k = j THEN v ELSE f[k]]

Drop(f, j) == [k \in DOMAIN f \ {j} |-> f[k]]

\* dt.datetime.utcnow() read after a timestamp t was stored: the clock has
\* moved on.  Timestamps are counted per job, from its creation.
utcnow(t) == t + 1

\* ingest.create_job_for_upload: the Job of a new upload
NewJob ==
    [status |-> "queued", created_at |-> 0, updated_at |-> 0,
     script_path |-> FALSE, audio_path |-> FALSE,
     user_error |-> None, error |-> None, traceback |-> None]

\* lectures.create_lecture_from_job
create_lecture_from_job(j, job) ==
    [status |-> map_job_status(job.status),
     lecture_script_json_path |-> job.script_path,
     chunks_json_path |-> (j \in fs.chunks)]

\* session.commit(): the session's objects and pending rows reach the store
Commit(j, s) ==
    /\ jobs' = Upsert(jobs, j, s.job)
    /\ lectures' = Upsert(lectures, j, s.lecture)
    /\ outputs' = outputs \cup s.pending
    /\ sess' = [sess EXCEPT ![j] = [s EXCEPT !.pending = {}]]

\* Worker._update_status(job, lecture, status) on the session's objects
update_status(s, status) ==
    LET r == apply_transition(s.job, status, utcnow(s.job.updated_at))
    IN  IF r.raised
        THEN [raised |-> TRUE, sess |-> s]
        ELSE [raised |-> FALSE,
              sess |-> [s EXCEPT !.job = r.job,
                                  !.lecture.status = map_lecture_status(status)]]

\* An exception leaves the try block: control goes to the except clause.
Raise(j, kind) ==
    /\ pc' = [pc EXCEPT ![j] = "except"]
    /\ exc' = kind

\* process_job returns (the session closes) and Worker.run, which awaited the
\* thread, calls task_done() and goes round its loop.
Return(j) ==
    /\ pc' = [pc EXCEPT ![j] = None]
    /\ sess' = Drop(sess, j)
    /\ exc' = None
    /\ ran' = [ran EXCEPT ![j] = <<>>]
    /\ task' = "top"

\* _update_status(job, lecture, status); session.commit(): on to position next,
\* or to the except clause when the transition is refused.
Advance(j, s, status, next) ==
    LET u == update_status(s, status)
    IN  IF u.raised
        THEN /\ Raise(j, "ValueError")
             /\ UNCHANGED <<store, sess>>
        ELSE /\ Commit(j, u.sess)
             /\ pc' = [pc EXCEPT ![j] = next]
             /\ UNCHANGED <<fs, exc>>

\* The orders in which a query may return the rows S.
Orders(S) ==
    {q \in [1..Cardinality(S) -> S] : \A a, b \in DOMAIN q : q[a] = q[b] => a = b}

\* ------------------------------------------- app/main.py: server process
\* Worker.start()
\* (mutant) a start that creates a task whether or not there is one
start_always == "top"

start == IF task = None THEN "top" ELSE task

\* (mutant) a startup query that finds nothing
StartupQuery_none == {}

\* startup: select(Job).where(Job.status == JobStatus.queued)
StartupQuery == {j \in DOMAIN jobs : jobs[j].status = "queued"}

\* startup(): start the worker, then enqueue the queued jobs in query order.
\* No await of the hook suspends, so the worker loop runs only afterwards.
Startup ==
    /\ ~started
    /\ started' = TRUE
    /\ task' = start
    /\ \E order \in Orders(StartupQuery) :
          /\ queue' = queue \o order
          /\ enqueued' = enqueued \o order
    /\ recovered' = StartupQuery
    /\ UNCHANGED <<settings, store, stop, thread, requests, restarts, dequeued, ran, harness>>

\* The process ends and a new one is imported: Settings.from_env() is read
\* again (the deployment keeps its feature flags; OPENAI_API_KEY may or may
\* not be in the new environment), Worker() is constructed again, the store
\* and the files remain.
NewProcess ==
    /\ restarts' = restarts + 1
    /\ \E key \in BOOLEAN : settings' = [settings EXCEPT !.openai_api_key = key]
    /\ queue' = <<>>
    /\ task' = None
    /\ stop' = FALSE
    /\ started' = FALSE
    /\ pc' = [j \in Ids |-> None]
    /\ sess' = <<>>
    /\ exc' = None
    /\ up' = {}
    /\ pre' = {}
    /\ recovered' = {}
    /\ enqueued' = <<>>
    /\ dequeued' = <<>>
    /\ ran' = [j \in Ids |-> <<>>]
    /\ UNCHANGED <<store, harness>>

\* The process is killed (or the machine goes down) at any point.
Crash ==
    /\ started
    /\ restarts < MaxRestarts
    /\ NewProcess

\* shutdown(): Worker.stop() sets the stop event and awaits the task.
Shutdown ==
    /\ started
    /\ ~stop
    /\ restarts < MaxRestarts
    /\ up = {} /\ pre = {}
    /\ stop' = TRUE
    /\ UNCHANGED <<settings, store, queue, task, started, thread, requests, restarts,
                   history, harness>>

\* stop() has returned: the process exits.
Exit ==
    /\ stop
    /\ task = "exited"
    /\ NewProcess

\* (mutant) an upload that puts the id on the queue with nothing committed
UploadCommit_enqueues_first ==
    /\ started /\ ~stop
    /\ settings.openai_api_key
    /\ up = {}
    /\ FreeIds # {}
    /\ LET j == FreshId
       IN  /\ queue' = Append(queue, j)
           /\ enqueued' = Append(enqueued, j)
    /\ UNCHANGED <<settings, store, task, stop, started, thread, requests, restarts,
                   recovered, dequeued, ran, harness>>

\* upload(): the Job and its Lecture are committed as queued ...
UploadCommit ==
    /\ started /\ ~stop
    /\ settings.openai_api_key
    /\ up = {}
    /\ FreeIds # {}
    /\ LET j == FreshId
       IN  /\ jobs' = Upsert(jobs, j, NewJob)
           /\ lectures' = Upsert(lectures, j, create_lecture_from_job(j, NewJob))
           /\ up' = {j}
    /\ UNCHANGED <<settings, outputs, fs, loop, thread, pre, restarts, history, harness>>

\* ... and then its id is put on the worker's queue.
UploadEnqueue ==
    /\ up # {}
    /\ \E j \in up :
          /\ queue' = Append(queue, j)
          /\ enqueued' = Append(enqueued, j)
    /\ up' = {}
    /\ UNCHANGED <<settings, store, task, stop, started, thread, pre, restarts,
                   recovered, dequeued, ran, harness>>

\* upload_preprocessed(): the script and chunk files are written ...
PreprocessedWrite ==
    /\ started /\ ~stop
    /\ pre = {}
    /\ FreeIds # {}
    /\ LET j == FreshId
       IN  /\ fs' = [fs EXCEPT !.script = @ \cup {j}, !.chunks = @ \cup {j}]
           /\ pre' = {j}
    /\ UNCHANGED <<settings, jobs, lectures, outputs, loop, thread, up, restarts,
                   history, harness>>

\* ... and then the Job and the Lecture are committed as done.
PreprocessedJob ==
    [NewJob EXCEPT !.status = "done", !.script_path = TRUE]

PreprocessedCommit ==
    /\ pre # {}
    /\ \E j \in pre :
          /\ jobs' = Upsert(jobs, j, PreprocessedJob)
          /\ lectures' = Upsert(lectures, j,
                [status |-> "done", lecture_script_json_path |-> TRUE,
                 chunks_json_path |-> TRUE])
          /\ outputs' = outputs \cup {<<j, "script">>, <<j, "chunks">>}
    /\ pre' = {}
    /\ UNCHANGED <<settings, fs, loop, thread, up, restarts, history, harness>>

\* ------------------------------------------ app/main.py: query endpoints
\* (mutant) a lookup that stores the Job again, with the status of the Lecture
\* it returns
get_or_create_lecture_touches_job(j) ==
    /\ IF j \in DOMAIN jobs /\ j \notin DOMAIN lectures
       THEN lectures' = Upsert(lectures, j, create_lecture_from_job(j, jobs[j]))
       ELSE lectures' = lectures
    /\ IF j \in DOMAIN jobs
       THEN jobs' = [jobs EXCEPT ![j].status = map_job_status(@)]
       ELSE jobs' = jobs

\* _get_or_create_lecture(session, lecture_id): the Lecture row, created and
\* committed by ensure_lecture when the id has a Job and no Lecture yet
get_or_create_lecture(j) ==
    /\ IF j \in DOMAIN jobs /\ j \notin DOMAIN lectures
       THEN lectures' = Upsert(lectures, j, create_lecture_from_job(j, jobs[j]))
       ELSE lectures' = lectures
    /\ jobs' = jobs

\* datetime.isoformat()
isoformat(t) == <<"iso", t>>

\* (mutant) a response whose summary is the diagnostic
JobResponse_leaks(j, job) ==
    [job_id |-> j, status |-> job.status,
     created_at |-> isoformat(job.created_at),
     updated_at |-> isoformat(job.updated_at),
     audio_ready |-> job.audio_path, script_ready |-> job.script_path,
     user_error |-> job.error]

\* get_job: the JobResponse built from a Job row
JobResponse(j, job) ==
    [job_id |-> j, status |-> job.status,
     created_at |-> isoformat(job.created_at),
     updated_at |-> isoformat(job.updated_at),
     audio_ready |-> job.audio_path, script_ready |-> job.script_path,
     user_error |-> job.user_error]

\* What a query endpoint leaves alone besides the Job and Lecture rows.
served ==
    <<settings, outputs, fs, loop, thread, requests, restarts, history, harness>>

\* GET /jobs/{job_id}: reads the Job
get_job(j) ==
    /\ started
    /\ UNCHANGED <<jobs, lectures, served>>

\* GET /jobs/{job_id}/script: reads the Job
get_script(j) ==
    /\ started
    /\ UNCHANGED <<jobs, lectures, served>>

\* GET /lectures/{lecture_id}/status
lecture_status(j) ==
    /\ started
    /\ get_or_create_lecture(j)
    /\ UNCHANGED served

\* GET /lectures/{lecture_id}
get_lecture(j) ==
    /\ started
    /\ get_or_create_lecture(j)
    /\ UNCHANGED served

\* GET /lectures/{lecture_id}/chunk
get_lecture_chunk(j) ==
    /\ started
    /\ get_or_create_lecture(j)
    /\ UNCHANGED served

\* GET /lectures/{lecture_id}/context
get_lecture_context(j) ==
    /\ started
    /\ get_or_create_lecture(j)
    /\ UNCHANGED served

\* GET /lectures/{lecture_id}/script
get_lecture_script(j) ==
    /\ started
    /\ get_or_create_lecture(j)
    /\ UNCHANGED served

\* GET /lectures: ensure_lecture for every Job that has no Lecture
list_lectures ==
    /\ started
    /\ lectures' = [j \in DOMAIN jobs \cup DOMAIN lectures |->
                        IF j \in DOMAIN lectures
                        THEN lectures[j]
                        ELSE create_lecture_from_job(j, jobs[j])]
    /\ UNCHANGED <<jobs, served>>

Query ==
    \/ list_lectures
    \/ \E j \in Ids :
          \/ get_job(j)
          \/ get_script(j)
          \/ lecture_status(j)
          \/ get_lecture(j)
          \/ get_lecture_chunk(j)
          \/ get_lecture_context(j)
          \/ get_lecture_script(j)

\* Worker.enqueue(job_id) called with an id that names no Job (once per
\* process at most: the histories stay finite)
EnqueueMissing ==
    /\ started /\ ~stop
    /\ FreeIds # {}
    /\ \A i \in DOMAIN enqueued : enqueued[i] \in DOMAIN jobs
    /\ LET j == FreshId
       IN  /\ queue' = Append(queue, j)
           /\ enqueued' = Append(enqueued, j)
    /\ UNCHANGED <<settings, store, task, stop, started, thread, requests, restarts,
                   recovered, dequeued, ran, harness>>

\* ------------------------------------------ app/pipeline/worker.py: run
\* while not self._stop.is_set()
LoopCheck ==
    /\ task = "top"
    /\ task' = IF stop THEN "exited" ELSE "waiting"
    /\ UNCHANGED <<settings, store, queue, stop, started, thread, requests, restarts,
                   history, harness>>

\* (mutant) a poll timeout that leaves the loop
PollTimeout_exits ==
    /\ task = "waiting"
    /\ queue = <<>>
    /\ task' = "exited"
    /\ UNCHANGED <<settings, store, queue, stop, started, thread, requests, restarts,
                   history, harness>>

\* wait_for(queue.get(), 1.0) times out on an empty queue; sleep; continue
PollTimeout ==
    /\ task = "waiting"
    /\ queue = <<>>
    /\ task' = "top"
    /\ UNCHANGED <<settings, store, queue, stop, started, thread, requests, restarts,
                   history, harness>>

\* (mutant) a loop that starts the thread and does not await it
Dequeue_no_await ==
    /\ task = "waiting"
    /\ queue # <<>>
    /\ LET j == Head(queue)
       IN  /\ pc[j] = None
           /\ pc' = [pc EXCEPT ![j] = "load"]
           /\ dequeued' = Append(dequeued, j)
           /\ ran' = [ran EXCEPT ![j] = <<>>]
    /\ queue' = Tail(queue)
    /\ task' = "top"
    /\ UNCHANGED <<settings, store, stop, started, sess, exc, requests, restarts,
                   recovered, enqueued, harness>>

\* queue.get() returns the oldest id; to_thread(process_job, id) is awaited
Dequeue ==
    /\ task = "waiting"
    /\ queue # <<>>
    /\ LET j == Head(queue)
       IN  /\ pc' = [pc EXCEPT ![j] = "load"]
           /\ dequeued' = Append(dequeued, j)
           /\ ran' = [ran EXCEPT ![j] = <<>>]
    /\ queue' = Tail(queue)
    /\ task' = "busy"
    /\ UNCHANGED <<settings, store, stop, started, sess, exc, requests, restarts,
                   recovered, enqueued, harness>>

\* ---------------------------------- app/pipeline/worker.py: process_job
\* What no step of process_job touches.
outside ==
    <<settings, queue, stop, started, requests, restarts, recovered, enqueued, dequeued,
      harness>>

\* (mutant) a load that raises on a missing Job: the exception leaves
\* process_job and Worker.run, and the worker task ends
ProcessLoad_missing_raises(j) ==
    /\ pc[j] = "load"
    /\ IF j \notin DOMAIN jobs
       THEN /\ pc' = [pc EXCEPT ![j] = None]
            /\ task' = "exited"
            /\ UNCHANGED <<store, sess, exc, ran>>
       ELSE LET lecture == IF j \in DOMAIN lectures
                           THEN lectures[j]
                           ELSE create_lecture_from_job(j, jobs[j])
            IN  /\ lectures' = Upsert(lectures, j, lecture)
                /\ sess' = Upsert(sess, j,
                      [job |-> jobs[j], lecture |-> lecture, pending |-> {}])
                /\ pc' = [pc EXCEPT ![j] = "begin"]
                /\ UNCHANGED <<jobs, outputs, fs, exc, ran, task>>
    /\ UNCHANGED outside

\* session.get(Job, job_id); return if missing; ensure_lecture(session, job)
ProcessLoad(j) ==
    /\ pc[j] = "load"
    /\ IF j \notin DOMAIN jobs
       THEN /\ Return(j)
            /\ UNCHANGED store
       ELSE LET lecture == IF j \in DOMAIN lectures
                           THEN lectures[j]
                           ELSE create_lecture_from_job(j, jobs[j])
            IN  /\ lectures' = Upsert(lectures, j, lecture)
                /\ sess' = Upsert(sess, j,
                      [job |-> jobs[j], lecture |-> lecture, pending |-> {}])
                /\ pc' = [pc EXCEPT ![j] = "begin"]
                /\ UNCHANGED <<jobs, outputs, fs, exc, ran, task>>
    /\ UNCHANGED outside

\* (mutant) an extracting commit that already stores a script path
ProcessBegin_sets_script(j) ==
    /\ pc[j] = "begin"
    /\ IF ~settings.openai_api_key
       THEN /\ Raise(j, "RuntimeError")
            /\ UNCHANGED <<store, sess>>
       ELSE Advance(j, [sess[j] EXCEPT !.job.script_path = TRUE], "extracting", "extract")
    /\ UNCHANGED <<ran, task, outside>>

\* the API key check, then the move to extracting and its commit
ProcessBegin(j) ==
    /\ pc[j] = "begin"
    /\ IF ~settings.openai_api_key
       THEN /\ Raise(j, "RuntimeError")
            /\ UNCHANGED <<store, sess>>
       ELSE Advance(j, sess[j], "extracting", "extract")
    /\ UNCHANGED <<ran, task, outside>>

\* extract stage: the suffix check, analyze_pdf_chunks, the extraction file
StageExtract(j) ==
    /\ pc[j] = "extract"
    /\ \E ok \in BOOLEAN :
          IF ok
          THEN /\ fs' = [fs EXCEPT !.extracted = @ \cup {j}]
               /\ sess' = [sess EXCEPT ![j].pending = @ \cup {<<j, "extracted">>}]
               /\ pc' = [pc EXCEPT ![j] = "commit_scripting"]
               /\ ran' = [ran EXCEPT ![j] = Append(@, "extract")]
               /\ UNCHANGED <<jobs, lectures, outputs, exc>>
          ELSE /\ Raise(j, "StageError")
               /\ UNCHANGED <<store, sess, ran>>
    /\ UNCHANGED <<task, outside>>

CommitScripting(j) ==
    /\ pc[j] = "commit_scripting"
    /\ Advance(j, sess[j], "scripting", "script")
    /\ UNCHANGED <<ran, task, outside>>

\* (mutant) a script stage after which the chunk stage is skipped
StageScript_skips_chunk(j) ==
    /\ pc[j] = "script"
    /\ fs' = [fs EXCEPT !.script = @ \cup {j}]
    /\ sess' = [sess EXCEPT ![j].pending = @ \cup {<<j, "script">>},
                            ![j].lecture.lecture_script_json_path = TRUE]
    /\ pc' = [pc EXCEPT ![j] = "commit_script"]
    /\ ran' = [ran EXCEPT ![j] = Append(@, "script")]
    /\ UNCHANGED <<jobs, lectures, outputs, exc, task, outside>>

\* script stage: merge_chunks_to_script, or simple_fallback_script when that
\* raises; the script file; the lecture's title and script path
StageScript(j) ==
    /\ pc[j] = "script"
    /\ \E outcome \in {"merged", "fallback", "raise"} :
          IF outcome # "raise"
          THEN /\ fs' = [fs EXCEPT !.script = @ \cup {j}]
               /\ sess' = [sess EXCEPT ![j].pending = @ \cup {<<j, "script">>},
                                       ![j].lecture.lecture_script_json_path = TRUE]
               /\ pc' = [pc EXCEPT ![j] = "chunk"]
               /\ ran' = [ran EXCEPT ![j] = Append(@, "script")]
               /\ UNCHANGED <<jobs, lectures, outputs, exc>>
          ELSE /\ Raise(j, "StageError")
               /\ UNCHANGED <<store, sess, ran>>
    /\ UNCHANGED <<task, outside>>

\* (mutant) a chunk stage that computes the chunks and never writes them
StageChunk_no_write(j) ==
    /\ pc[j] = "chunk"
    /\ sess' = [sess EXCEPT ![j].lecture.chunks_json_path = TRUE]
    /\ pc' = [pc EXCEPT ![j] = "commit_script"]
    /\ ran' = [ran EXCEPT ![j] = Append(@, "chunk")]
    /\ UNCHANGED <<store, exc, task, outside>>

\* chunk stage: generate_lecture_chunks, write_chunks, the lecture's chunk path
StageChunk(j) ==
    /\ pc[j] = "chunk"
    /\ \E ok \in BOOLEAN :
          IF ok
          THEN /\ fs' = [fs EXCEPT !.chunks = @ \cup {j}]
               /\ sess' = [sess EXCEPT ![j].lecture.chunks_json_path = TRUE]
               /\ pc' = [pc EXCEPT ![j] = "commit_script"]
               /\ ran' = [ran EXCEPT ![j] = Append(@, "chunk")]
               /\ UNCHANGED <<jobs, lectures, outputs, exc>>
          ELSE /\ Raise(j, "StageError")
               /\ UNCHANGED <<store, sess, ran>>
    /\ UNCHANGED <<task, outside>>

\* job.script_path = ...; session.commit(), the status still scripting
CommitScript(j) ==
    /\ pc[j] = "commit_script"
    /\ Commit(j, [sess[j] EXCEPT !.job.script_path = TRUE])
    /\ pc' = [pc EXCEPT ![j] = "branch"]
    /\ UNCHANGED <<fs, exc, ran, task, outside>>

\* (mutant) the early done taken whatever enable_audio_generation says
MarkDoneNoAudio_unguarded(j) ==
    /\ pc[j] = "branch"
    /\ Advance(j, sess[j], "done", "feed")
    /\ UNCHANGED <<ran, task, outside>>

\* if not settings.enable_audio_generation: done
MarkDoneNoAudio(j) ==
    /\ pc[j] = "branch"
    /\ ~settings.enable_audio_generation
    /\ Advance(j, sess[j], "done", "feed")
    /\ UNCHANGED <<ran, task, outside>>

CommitTts(j) ==
    /\ pc[j] = "branch"
    /\ settings.enable_audio_generation
    /\ Advance(j, sess[j], "tts", "tts")
    /\ UNCHANGED <<ran, task, outside>>

\* synthesize-audio stage: generate_audio (one file, or a playlist)
StageTts(j) ==
    /\ pc[j] = "tts"
    /\ \E ok \in BOOLEAN :
          IF ok
          THEN /\ fs' = [fs EXCEPT !.audio = @ \cup {j}]
               /\ sess' = [sess EXCEPT ![j].pending = @ \cup {<<j, "audio">>}]
               /\ pc' = [pc EXCEPT ![j] = "commit_syncing"]
               /\ ran' = [ran EXCEPT ![j] = Append(@, "tts")]
               /\ UNCHANGED <<jobs, lectures, outputs, exc>>
          ELSE /\ Raise(j, "StageError")
               /\ UNCHANGED <<store, sess, ran>>
    /\ UNCHANGED <<task, outside>>

\* (mutant) syncing committed without the audio path
CommitSyncing_no_path(j) ==
    /\ pc[j] = "commit_syncing"
    /\ Advance(j, sess[j], "syncing", "deliver")
    /\ UNCHANGED <<ran, task, outside>>

\* _update_status(syncing); job.audio_path = ...; session.commit()
CommitSyncing(j) ==
    /\ pc[j] = "commit_syncing"
    /\ LET u == update_status(sess[j], "syncing")
       IN  IF u.raised
           THEN /\ Raise(j, "ValueError")
                /\ UNCHANGED <<store, sess>>
           ELSE /\ Commit(j, [u.sess EXCEPT !.job.audio_path = TRUE])
                /\ pc' = [pc EXCEPT ![j] = "deliver"]
                /\ UNCHANGED <<fs, exc>>
    /\ UNCHANGED <<ran, task, outside>>

\* deliver stage: storage.copy to ios_sync_dir when one is configured and the
\* audio file exists, nothing otherwise
StageDeliver(j) ==
    /\ pc[j] = "deliver"
    /\ \E ios_sync_dir \in BOOLEAN, copied \in BOOLEAN :
          IF ios_sync_dir /\ j \in fs.audio /\ ~copied
          THEN /\ Raise(j, "StageError")
               /\ UNCHANGED <<store, sess, ran>>
          ELSE /\ pc' = [pc EXCEPT ![j] = "commit_done"]
               /\ ran' = [ran EXCEPT ![j] = Append(@, "deliver")]
               /\ UNCHANGED <<store, sess, exc>>
    /\ UNCHANGED <<task, outside>>

CommitDone(j) ==
    /\ pc[j] = "commit_done"
    /\ Advance(j, sess[j], "done", "feed")
    /\ UNCHANGED <<ran, task, outside>>

\* if settings.enable_rss: generate_feed(all jobs); then process_job returns
Feed(j) ==
    /\ pc[j] = "feed"
    /\ \E written \in BOOLEAN :
          IF settings.enable_rss /\ ~written
          THEN /\ Raise(j, "StageError")
               /\ UNCHANGED <<store, sess, ran, task>>
          ELSE /\ Return(j)
               /\ UNCHANGED store
    /\ UNCHANGED outside

\* (mutant) an except clause that rolls the job's outputs back
failed_job_rollback(job, e) ==
    [job EXCEPT !.status = "failed", !.updated_at = utcnow(job.updated_at),
                !.user_error = "Processing failed", !.error = e, !.traceback = e,
                !.script_path = FALSE, !.audio_path = FALSE]

\* (mutant) an except clause that stores the diagnostic without the summary
failed_job_no_summary(job, e) ==
    [job EXCEPT !.status = "failed", !.updated_at = utcnow(job.updated_at),
                !.error = e, !.traceback = e]

\* except Exception: the job is moved to failed, through apply_transition or,
\* when that raises, by assignment, and the error fields are set ...
failed_job(job, e) ==
    LET now == utcnow(job.updated_at)
        r == apply_transition(job, "failed", now)
        failed == IF r.raised
                  THEN [job EXCEPT !.status = "failed", !.updated_at = now]
                  ELSE r.job
    IN  [failed EXCEPT !.user_error = "Processing failed",
                       !.error = e, !.traceback = e]

\* (mutant) an except clause that leaves the lecture's status as it was
HandleException_keeps_lecture(j) ==
    /\ pc[j] = "except"
    /\ LET s == sess[j]
       IN  /\ jobs' = Upsert(jobs, j, failed_job(s.job, exc))
           /\ lectures' = Upsert(lectures, j, s.lecture)
           /\ outputs' = outputs \cup s.pending
    /\ Return(j)
    /\ UNCHANGED <<fs, outside>>

\* ... the lecture is marked failed; session.commit(); process_job returns.
HandleException(j) ==
    /\ pc[j] = "except"
    /\ LET s == sess[j]
       IN  /\ jobs' = Upsert(jobs, j, failed_job(s.job, exc))
           /\ lectures' = Upsert(lectures, j, [s.lecture EXCEPT !.status = "failed"])
           /\ outputs' = outputs \cup s.pending
    /\ Return(j)
    /\ UNCHANGED <<fs, outside>>

ProcessJob(j) ==
    \/ ProcessLoad(j)
    \/ ProcessBegin(j)
    \/ StageExtract(j)
    \/ CommitScripting(j)
    \/ StageScript(j)
    \/ StageChunk(j)
    \/ CommitScript(j)
    \/ MarkDoneNoAudio(j)
    \/ CommitTts(j)
    \/ StageTts(j)
    \/ CommitSyncing(j)
    \/ StageDeliver(j)
    \/ CommitDone(j)
    \/ Feed(j)
    \/ HandleException(j)

WorkerNext ==
    \/ LoopCheck
    \/ PollTimeout
    \/ Dequeue
    \/ \E j \in Ids : ProcessJob(j)

Next ==
    \/ Startup
    \/ Crash
    \/ Shutdown
    \/ Exit
    \/ UploadCommit
    \/ UploadEnqueue
    \/ PreprocessedWrite
    \/ PreprocessedCommit
    \/ WorkerNext

Spec == Init /\ [][Next]_vars

\* The server while nobody shuts it down, under the scheduling the code gives
\* it: the startup hook runs, the worker task and its thread keep being
\* scheduled, and an upload handler that has committed goes on to its
\* enqueue.  Stage calls return or raise.  The process may still be killed.
LiveNext ==
    \/ Startup
    \/ Crash
    \/ UploadCommit
    \/ UploadEnqueue
    \/ WorkerNext

LiveSpec ==
    /\ Init
    /\ [][LiveNext]_vars
    /\ WF_vars(Startup)
    /\ WF_vars(WorkerNext)
    /\ WF_vars(UploadEnqueue)

\* ------------------------------ process_job raising, and Worker.run with it
\* process_job raises: the session closes, the thread ends, and Worker.run,
\* which has a finally clause around the await and no except clause, calls
\* task_done() and ends with the exception.
Escape(j) ==
    /\ pc' = [pc EXCEPT ![j] = None]
    /\ sess' = Drop(sess, j)
    /\ exc' = None
    /\ ran' = [ran EXCEPT ![j] = <<>>]
    /\ task' = "raised"

\* ensure_lecture(session, job), called ahead of the try block, raises: its
\* session.get of the Lecture, or its commit of a new one, fails (the
\* database is locked, the disk is full)
EnsureLectureRaises(j) ==
    /\ pc[j] = "load"
    /\ j \in DOMAIN jobs
    /\ Escape(j)
    /\ UNCHANGED <<store, outside>>

\* session.commit() in the except clause raises: nothing of the clause is stored
HandlerCommitRaises(j) ==
    /\ pc[j] = "except"
    /\ Escape(j)
    /\ UNCHANGED <<store, outside>>

\* The server with a store whose commits can fail.
FaultNext ==
    \/ Startup
    \/ UploadCommit
    \/ UploadEnqueue
    \/ WorkerNext
    \/ \E j \in Ids : EnsureLectureRaises(j)
    \/ \E j \in Ids : HandlerCommitRaises(j)

FaultSpec == Init /\ [][FaultNext]_vars

\* ------------------------------------------- an id delivered a second time
\* Worker.enqueue(job_id) called again for a Job that is done or failed (once
\* per process at most: the histories stay finite)
EnqueueAgain ==
    /\ started /\ ~stop
    /\ \A i, k \in DOMAIN enqueued : enqueued[i] = enqueued[k] => i = k
    /\ \E j \in DOMAIN jobs :
          /\ jobs[j].status \in {"done", "failed"}
          /\ pc[j] = None
          /\ j \notin Range(queue)
          /\ queue' = Append(queue, j)
          /\ enqueued' = Append(enqueued, j)
    /\ UNCHANGED <<settings, store, task, stop, started, thread, requests, restarts,
                   recovered, dequeued, ran, harness>>

\* The server with a queue that delivers at least once.
RedeliverNext ==
    \/ Startup
    \/ UploadCommit
    \/ UploadEnqueue
    \/ EnqueueAgain
    \/ WorkerNext

RedeliverSpec == Init /\ [][RedeliverNext]_vars

\* ------------------------------------------------ Worker.start called again
\* Worker.start() called on its own, at any time; out keeps, call by call,
\* Worker._task before the call and after it
StartAgain ==
    /\ ~stop
    /\ Len(out) < MaxStarts
    /\ task' = start
    /\ out' = Append(out, [before |-> task, after |-> task'])
    /\ UNCHANGED <<settings, store, queue, stop, started, thread, requests, restarts,
                   history, tjob, tnew, tnow, tres, arg>>

StartNext ==
    \/ Startup
    \/ StartAgain
    \/ UploadCommit
    \/ UploadEnqueue
    \/ WorkerNext

StartSpec == Init /\ [][StartNext]_vars

\* The server with a caller of Worker.enqueue that may pass an id of no Job.
EnqueueNext ==
    \/ Startup
    \/ Crash
    \/ UploadCommit
    \/ UploadEnqueue
    \/ EnqueueMissing
    \/ WorkerNext

EnqueueSpec == Init /\ [][EnqueueNext]_vars

\* The server answering queries while the worker runs.  The store it starts
\* on is empty or holds one Job written before there was a Lecture table:
\* queued, or done with its script and chunk files.
LegacyJob == 1

QInit ==
    /\ settings \in Settings
    /\ \E legacy \in {"no", "queued", "done"} :
          /\ jobs = CASE legacy = "no"     -> <<>>
                      [] legacy = "queued" -> Upsert(<<>>, LegacyJob, NewJob)
                      [] legacy = "done"   -> Upsert(<<>>, LegacyJob, PreprocessedJob)
          /\ fs = IF legacy = "done"
                  THEN [NoFiles EXCEPT !.script = {LegacyJob}, !.chunks = {LegacyJob}]
                  ELSE NoFiles
    /\ lectures = <<>>
    /\ outputs = {}
    /\ restarts = 0
    /\ FreshProcess
    /\ HarnessIdle

QueryNext ==
    \/ Startup
    \/ UploadCommit
    \/ UploadEnqueue
    \/ WorkerNext
    \/ Query

QuerySpec == QInit /\ [][QueryNext]_vars

\* ------------------------------------------- get_job on two Job rows
ExcKinds == {"RuntimeError", "ValueError", "StageError"}

\* Job rows as the worker and the upload handlers store them
JobRows ==
    {r \in [status : JobStatus, created_at : {0}, updated_at : Times,
            script_path : BOOLEAN, audio_path : BOOLEAN,
            user_error : {None, "Processing failed"},
            error : ExcKinds \cup {None}, traceback : ExcKinds \cup {None}] :
        IF r.status = "failed"
        THEN r.user_error # None /\ r.error # None /\ r.traceback # None
        ELSE r.user_error = None /\ r.error = None /\ r.traceback = None}

RInit ==
    /\ settings = DefaultSettings
    /\ jobs = <<>>
    /\ lectures = <<>>
    /\ outputs = {}
    /\ fs = NoFiles
    /\ restarts = 0
    /\ FreshProcess
    /\ tjob = [status |-> "queued", updated_at |-> 0]
    /\ tnew = "queued"
    /\ tnow = 0
    /\ tres = [called |-> FALSE, raised |-> FALSE, job |-> tjob]
    /\ \E j \in Ids, a \in JobRows, b \in JobRows :
          /\ b = [a EXCEPT !.error = b.error, !.traceback = b.traceback]
          /\ arg = <<j, a, b>>
    /\ out = <<>>

\* get_job answers for the one row and for the other
RGetJob ==
    /\ out = <<>>
    /\ out' = <<JobResponse(arg[1], arg[2]), JobResponse(arg[1], arg[3])>>
    /\ UNCHANGED <<settings, store, loop, thread, requests, restarts, history,
                   tjob, tnew, tnow, tres, arg>>

ResponseSpec == RInit /\ [][RGetJob]_vars

\* ------------------------ app/pipeline/script_writer.py: the script stage
\* JSON values a key of an extraction unit can hold: absent (None from .get),
\* a string, a list.  v = "" is the empty string or the empty list.
JsonValues ==
    {[t |-> "none", v |-> ""], [t |-> "str", v |-> ""], [t |-> "str", v |-> "s1"],
     [t |-> "str", v |-> "s2"], [t |-> "list", v |-> ""], [t |-> "list", v |-> "items"]}

\* What _safe_json_loads returned for a page window: a JSON object with its
\* chunk_summary, or a JSON value that is no object.
Units ==
    [dict : {TRUE}, chunk_summary : JsonValues]
        \cup {[dict |-> FALSE, chunk_summary |-> [t |-> "none", v |-> ""]]}

\* Python truth value
truthy(x) == x.t # "none" /\ x.v # ""

SummaryMissing == [t |-> "str", v |-> "Summary missing."]

\* simple_fallback_script(chunks, title_hint): one chapter per unit, in order;
\* ch.get raises on a unit that is no object, and LectureScript(**data) raises
\* on a narration that is no string.
simple_fallback_script(chunks, title_hint) ==
    LET chapters ==
            [i \in 1..Len(chunks) |->
                [name |-> <<"Section", i>>,
                 narration |-> IF truthy(chunks[i].chunk_summary)
                               THEN chunks[i].chunk_summary
                               ELSE SummaryMissing]]
    IN  IF \E i \in 1..Len(chunks) : ~chunks[i].dict
        THEN [raised |-> "AttributeError", chapters |-> <<>>, fallback |-> TRUE]
        ELSE IF \E i \in 1..Len(chunks) : chapters[i].narration.t # "str"
        THEN [raised |-> "ValidationError", chapters |-> <<>>, fallback |-> TRUE]
        ELSE [raised |-> None, chapters |-> chapters, fallback |-> TRUE]

\* process_job, the script stage: merge_chunks_to_script, or the fallback when
\* that raises (the collaborator fails, its text is no JSON, or the JSON is no
\* LectureScript).  merged is the chapter list of a merge that succeeded.
script_stage(merge_raises, merged, chunks, title_hint) ==
    IF merge_raises
    THEN simple_fallback_script(chunks, title_hint)
    ELSE [raised |-> None, chapters |-> merged, fallback |-> FALSE]

UnitLists == UNION {[1..n -> Units] : n \in 0..MaxUnits}

\* A chapter list as the collaborator may write it, whatever the units were
MergedChapters ==
    <<[name |-> <<"Section", 1>>, narration |-> [t |-> "str", v |-> "s1"]]>>

FInit ==
    /\ settings = DefaultSettings
    /\ jobs = <<>>
    /\ lectures = <<>>
    /\ outputs = {}
    /\ fs = NoFiles
    /\ restarts = 0
    /\ FreshProcess
    /\ tjob = [status |-> "queued", updated_at |-> 0]
    /\ tnew = "queued"
    /\ tnow = 0
    /\ tres = [called |-> FALSE, raised |-> FALSE, job |-> tjob]
    /\ \E chunks \in UnitLists, merge_raises \in BOOLEAN :
          arg = [chunks |-> chunks, merge_raises |-> merge_raises]
    /\ out = <<>>

FScript ==
    /\ out = <<>>
    /\ out' = <<script_stage(arg.merge_raises, MergedChapters, arg.chunks, "hint")>>
    /\ UNCHANGED <<settings, store, loop, thread, requests, restarts, history,
                   tjob, tnew, tnow, tres, arg>>

FallbackSpec == FInit /\ [][FScript]_vars

\* ------------------------ app/pipeline/analyze_pdf.py: the extract stage
\* A text of the collaborator: a body (nothing, a JSON object, a JSON object
\* with an invalid backslash escape, or text that is no JSON), possibly inside
\* a code fence, possibly with prose around it.
Text(fence, prose, body) == [fence |-> fence, prose |-> prose, body |-> body]

NoText == Text(FALSE, FALSE, "")

Texts ==
    {NoText, Text(FALSE, FALSE, "json"), Text(TRUE, FALSE, "json"),
     Text(FALSE, TRUE, "json"), Text(FALSE, FALSE, "bad_escape"),
     Text(TRUE, FALSE, "broken")}

\* _strip_code_fences: the inside of a fence that spans the whole text
strip_code_fences(text) ==
    IF text.fence /\ ~text.prose THEN [text EXCEPT !.fence = FALSE] ELSE text

\* _extract_json_block: from the first { to the last }, when there are braces
extract_json_block(text) ==
    IF text.body # "" THEN Text(FALSE, FALSE, text.body) ELSE text

\* _coerce_json: json.loads; TRUE when it raises JSONDecodeError
coerce_json_raises(text) ==
    ~(~text.fence /\ ~text.prose /\ text.body = "json")

\* _INVALID_ESCAPE_RE.sub: invalid escapes are doubled
fix_escapes(text) ==
    IF text.body = "bad_escape" THEN [text EXCEPT !.body = "json"] ELSE text

\* _safe_json_loads: TRUE when it raises JSONDecodeError
safe_json_loads_raises(text) ==
    LET cleaned == extract_json_block(strip_code_fences(text))
    IN  IF coerce_json_raises(cleaned)
        THEN coerce_json_raises(fix_escapes(cleaned))
        ELSE FALSE

\* (mutant) a window end that is not held at the last page
min_unclamped(a, b) == a

min(a, b) == IF a <= b THEN a ELSE b

\* (mutant) a window loop that asks for a second repair
analyze_from_repairs_twice(page, total_pages, per, resp, results, calls) ==
    [raised |-> None, results |-> results,
     calls |-> calls \o <<<<"repair", page>>, <<"repair", page>>>>]

\* analyze_pdf_chunks from window `page` on: the requests made (calls), the
\* windows stored (results) and the exception that ended it, if any.
\* resp[page] holds what the collaborator answers for the window starting at
\* page: to the analysis request and to the repair request.
RECURSIVE analyze_from(_, _, _, _, _, _)
analyze_from(page, total_pages, per, resp, results, calls) ==
    IF page > total_pages
    THEN [raised |-> None, results |-> results, calls |-> calls]
    ELSE
      LET end_page == min(page + per - 1, total_pages)
          text == resp[page].first
          asked == Append(calls, <<"analyze", page>>)
          repaired_text == resp[page].repair
          asked_repair == Append(asked, <<"repair", page>>)
          stored == Append(results, <<page, end_page>>)
      IN  IF text = NoText
          THEN [raised |-> "RuntimeError", results |-> results, calls |-> asked]
          ELSE IF ~safe_json_loads_raises(text)
          THEN analyze_from(end_page + 1, total_pages, per, resp, stored, asked)
          ELSE IF repaired_text = NoText
          THEN [raised |-> "RuntimeError", results |-> results, calls |-> asked_repair]
          ELSE IF safe_json_loads_raises(strip_code_fences(repaired_text))
          THEN [raised |-> "JSONDecodeError", results |-> results, calls |-> asked_repair]
          ELSE analyze_from(end_page + 1, total_pages, per, resp, stored, asked_repair)

analyze_pdf_chunks(total_pages, per, resp) ==
    analyze_from(1, total_pages, per, resp, <<>>, <<>>)

AInit ==
    /\ settings = DefaultSettings
    /\ jobs = <<>>
    /\ lectures = <<>>
    /\ outputs = {}
    /\ fs = NoFiles
    /\ restarts = 0
    /\ FreshProcess
    /\ tjob = [status |-> "queued", updated_at |-> 0]
    /\ tnew = "queued"
    /\ tnow = 0
    /\ tres = [called |-> FALSE, raised |-> FALSE, job |-> tjob]
    /\ \E total_pages \in 0..MaxPages, per \in 1..MaxPages :
          \E resp \in [1..total_pages -> [first : Texts, repair : Texts]] :
              arg = [total_pages |-> total_pages, max_pages_per_chunk |-> per,
                     resp |-> resp]
    /\ out = <<>>

AAnalyze ==
    /\ out = <<>>
    /\ out' = <<analyze_pdf_chunks(arg.total_pages, arg.max_pages_per_chunk, arg.resp)>>
    /\ UNCHANGED <<settings, store, loop, thread, requests, restarts, history,
                   tjob, tnew, tnow, tres, arg>>

AnalyzeSpec == AInit /\ [][AAnalyze]_vars

\* ------------------------------- app/chunking.py: generate_lecture_chunks
\* A text is the sequence of its pieces, and whitespace is what lies between
\* two pieces: a normalized text and the join of a list are the same sequence.
\* A piece records the field it was read from (src), its place there (at: the
\* chapter and the position in the field), the number of words _WORD_RE finds
\* in it (none in "..."), and whether it ends in one of . ! ? (stop).
Words == {0, 2}

SentenceLists == UNION {[1..n -> Words] : n \in 0..MaxSentences}

\* Chapter.narration: its sentences, the last of them ending in . ! ? or not
Narrations == [sentences : SentenceLists, open : BOOLEAN]

\* Chapter.figure_narration: per figure the words of description, axes, trend
\* and significance together, which end in a full stop
FigureLists == {<<>>, <<2>>}

\* SpokenMath: spoken and intuition, each <<>> when blank or None
MathItems ==
    {[spoken |-> <<>>, intuition |-> <<>>],
     [spoken |-> <<2>>, intuition |-> <<>>],
     [spoken |-> <<0>>, intuition |-> <<2>>]}

piece(src, i, k, words, ends) ==
    [src |-> src, at |-> <<i, k>>, words |-> words, stop |-> ends]

RECURSIVE join(_)
join(parts) == IF parts = <<>> THEN <<>> ELSE Head(parts) \o join(Tail(parts))

\* _SENTENCE_RE.split: a sentence ends at a . ! ? that whitespace follows
RECURSIVE split_from(_, _)
split_from(text, part) ==
    IF text = <<>> THEN IF part # <<>> THEN <<part>> ELSE <<>>
    ELSE LET p == Append(part, Head(text))
         IN  IF Head(text).stop /\ Tail(text) # <<>>
             THEN <<p>> \o split_from(Tail(text), <<>>)
             ELSE split_from(Tail(text), p)

split_sentences(text) == split_from(text, <<>>)

RECURSIVE word_count(_)
word_count(text) ==
    IF text = <<>> THEN 0 ELSE Head(text).words + word_count(Tail(text))

max(a, b) == IF a >= b THEN a ELSE b

\* round(n / d) of Python 3: to the nearest integer, a half to the even one
round(n, d) ==
    LET q == n \div d
        r == n % d
    IN  IF 2 * r < d THEN q
        ELSE IF 2 * r > d THEN q + 1
        ELSE IF q % 2 = 0 THEN q ELSE q + 1

\* estimate_seconds of a text with `words` words
estimate_seconds(words, wps) ==
    IF words = 0 THEN 0 ELSE max(1, round(words * wps.den, wps.num))

\* _figure_to_text: one text per figure
figure_to_text(chapter, i) ==
    [k \in 1..Len(chapter.figure_narration) |->
        <<piece("figure", i, k, chapter.figure_narration[k], TRUE)>>]

\* _spoken_math_lines: the spoken line and the intuition of every item, the
\* blank ones left out
RECURSIVE spoken_math_lines_from(_, _, _)
spoken_math_lines_from(chapter, i, k) ==
    IF k > Len(chapter.spoken_math) THEN <<>>
    ELSE LET item == chapter.spoken_math[k]
         IN  (IF item.spoken # <<>>
              THEN <<piece("spoken", i, k, item.spoken[1], TRUE)>> ELSE <<>>)
             \o (IF item.intuition # <<>>
                 THEN <<piece("intuition", i, k, item.intuition[1], TRUE)>> ELSE <<>>)
             \o spoken_math_lines_from(chapter, i, k + 1)

spoken_math_lines(chapter, i) == spoken_math_lines_from(chapter, i, 1)

\* (mutant) an append that leaves the counter where it was
emit_no_increment(acc, text, math, section_name, wps) ==
    [chunks |-> Append(acc.chunks,
                    [chunk_id |-> acc.chunk_id,
                     approx_seconds |-> estimate_seconds(word_count(text), wps),
                     text |-> text, spoken_math |-> math,
                     section_name |-> section_name]),
     chunk_id |-> IF math # <<>> THEN acc.chunk_id ELSE acc.chunk_id + 1]

\* chunks.append(LectureChunk(chunk_id=chunk_id, ...)); chunk_id += 1
\* (spoken_math None is <<>> here: the code never stores an empty list)
emit(acc, text, math, section_name, wps) ==
    [chunks |-> Append(acc.chunks,
                    [chunk_id |-> acc.chunk_id,
                     approx_seconds |-> estimate_seconds(word_count(text), wps),
                     text |-> text, spoken_math |-> math,
                     section_name |-> section_name]),
     chunk_id |-> acc.chunk_id + 1]

\* (mutant) the loop without the `if current:` that follows it
RECURSIVE narration_chunks_drops_rest(_, _, _, _, _, _)
narration_chunks_drops_rest(sentences, current, acc, section_name, target, wps) ==
    IF sentences = <<>> THEN acc
    ELSE LET cur == Append(current, Head(sentences))
         IN  IF estimate_seconds(word_count(join(cur)), wps) >= target
             THEN narration_chunks_drops_rest(Tail(sentences), <<>>,
                                   emit(acc, join(cur), <<>>, section_name, wps),
                                   section_name, target, wps)
             ELSE narration_chunks_drops_rest(Tail(sentences), cur, acc, section_name,
                                              target, wps)

\* (mutant) a buffer closed only once it is past the target
RECURSIVE narration_chunks_closes_late(_, _, _, _, _, _)
narration_chunks_closes_late(sentences, current, acc, section_name, target, wps) ==
    IF sentences = <<>>
    THEN IF current # <<>> THEN emit(acc, join(current), <<>>, section_name, wps)
         ELSE acc
    ELSE LET cur == Append(current, Head(sentences))
         IN  IF estimate_seconds(word_count(join(cur)), wps) > target
             THEN narration_chunks_closes_late(Tail(sentences), <<>>,
                                   emit(acc, join(cur), <<>>, section_name, wps),
                                   section_name, target, wps)
             ELSE narration_chunks_closes_late(Tail(sentences), cur, acc, section_name,
                                               target, wps)

\* the loop over the sentences of one section, and the rest after it
RECURSIVE narration_chunks(_, _, _, _, _, _)
narration_chunks(sentences, current, acc, section_name, target, wps) ==
    IF sentences = <<>>
    THEN IF current # <<>> THEN emit(acc, join(current), <<>>, section_name, wps)
         ELSE acc
    ELSE LET cur == Append(current, Head(sentences))
         IN  IF estimate_seconds(word_count(join(cur)), wps) >= target
             THEN narration_chunks(Tail(sentences), <<>>,
                                   emit(acc, join(cur), <<>>, section_name, wps),
                                   section_name, target, wps)
             ELSE narration_chunks(Tail(sentences), cur, acc, section_name, target, wps)

\* (mutant) the math chunk of a section ahead of its narration chunks
section_chunks_math_first(section, acc, target, wps) ==
    LET math == IF section.math_lines # <<>>
                THEN emit(acc, section.math_lines, section.math_lines, section.name, wps)
                ELSE acc
    IN  IF section.text # <<>>
        THEN narration_chunks(split_sentences(section.text), <<>>, math,
                              section.name, target, wps)
        ELSE math

\* one pass of the loop over the sections: narration chunks, then the math chunk
section_chunks(section, acc, target, wps) ==
    LET told == IF section.text # <<>>
                THEN narration_chunks(split_sentences(section.text), <<>>, acc,
                                      section.name, target, wps)
                ELSE acc
    IN  IF section.math_lines # <<>>
        THEN emit(told, section.math_lines, section.math_lines, section.name, wps)
        ELSE told

\* the narration of chapter i as a text
narration_text(chapter, i) ==
    LET s == chapter.narration.sentences
    IN  [k \in 1..Len(s) |->
            piece("narration", i, k, s[k], k < Len(s) \/ ~chapter.narration.open)]

\* (mutant) sections of the narration alone, without the figure text
iter_sections_without_figures(script) ==
    [i \in 1..Len(script.chapters) |->
        [name |-> <<"chapter", i>>,
         text |-> narration_text(script.chapters[i], i),
         math_lines |-> spoken_math_lines(script.chapters[i], i)]]
    \o (IF script.final_recap # <<>>
        THEN <<[name |-> <<"Recap", 0>>,
                text |-> [k \in 1..Len(script.final_recap) |->
                             piece("recap", 0, k, script.final_recap[k], TRUE)],
                math_lines |-> <<>>]>>
        ELSE <<>>)

\* _iter_sections: the chapters in order, then the recap when there is one
iter_sections(script) ==
    [i \in 1..Len(script.chapters) |->
        [name |-> <<"chapter", i>>,
         text |-> narration_text(script.chapters[i], i)
                  \o join(figure_to_text(script.chapters[i], i)),
         math_lines |-> spoken_math_lines(script.chapters[i], i)]]
    \o (IF script.final_recap # <<>>
        THEN <<[name |-> <<"Recap", 0>>,
                text |-> [k \in 1..Len(script.final_recap) |->
                             piece("recap", 0, k, script.final_recap[k], TRUE)],
                math_lines |-> <<>>]>>
        ELSE <<>>)

RECURSIVE all_sections(_, _, _, _)
all_sections(sections, acc, target, wps) ==
    IF sections = <<>> THEN acc
    ELSE all_sections(Tail(sections), section_chunks(Head(sections), acc, target, wps),
                      target, wps)

\* (mutant) the setting ahead of the argument
target_or_setting_reversed(target_seconds) ==
    IF settings.chunk_target_seconds # 0 THEN settings.chunk_target_seconds
    ELSE target_seconds

\* target_seconds or settings.chunk_target_seconds: 0 and None give way
target_or_setting(target_seconds) ==
    IF target_seconds # 0 THEN target_seconds ELSE settings.chunk_target_seconds

\* words_per_second or settings.chunk_words_per_second
wps_or_setting(words_per_second) ==
    IF words_per_second # 0 THEN [num |-> words_per_second, den |-> 1]
    ELSE settings.chunk_words_per_second

\* generate_lecture_chunks(script, target_seconds, words_per_second)
generate_lecture_chunks(script, target_seconds, words_per_second) ==
    all_sections(iter_sections(script), [chunks |-> <<>>, chunk_id |-> 0],
                 target_or_setting(target_seconds),
                 wps_or_setting(words_per_second)).chunks

\* Chapters as the chunker reads them. Whether the narration's last sentence
\* ends in . ! ? is told apart where figure text follows it.
ChapterTexts ==
    {c \in [narration : Narrations, figure_narration : FigureLists,
            spoken_math : {<<>>} \cup {<<m>> : m \in MathItems}] :
        c.narration.open =>
            (c.narration.sentences # <<>> /\ c.figure_narration # <<>>)}

Scripts ==
    [chapters : UNION {[1..n -> ChapterTexts] : n \in 0..MaxChapters},
     final_recap : {<<>>} \cup {<<w>> : w \in Words}]

GInit ==
    /\ settings = DefaultSettings
    /\ jobs = <<>>
    /\ lectures = <<>>
    /\ outputs = {}
    /\ fs = NoFiles
    /\ restarts = 0
    /\ FreshProcess
    /\ tjob = [status |-> "queued", updated_at |-> 0]
    /\ tnew = "queued"
    /\ tnow = 0
    /\ tres = [called |-> FALSE, raised |-> FALSE, job |-> tjob]
    /\ \E script \in Scripts, target_seconds \in 0..MaxTarget,
          words_per_second \in 0..1 :
          arg = [script |-> script, target_seconds |-> target_seconds,
                 words_per_second |-> words_per_second]
    /\ out = <<>>

GChunk ==
    /\ out = <<>>
    /\ out' = <<generate_lecture_chunks(arg.script, arg.target_seconds,
                                        arg.words_per_second)>>
    /\ UNCHANGED <<settings, store, loop, thread, requests, restarts, history,
                   tjob, tnew, tnow, tres, arg>>

ChunkSpec == GInit /\ [][GChunk]_vars

\* ------------------- generate_lecture_chunks twice, the settings in between
\* What CHUNK_TARGET_SECONDS and CHUNK_WORDS_PER_SECOND make of the settings:
\* the defaults, a target of one second, one word in two seconds
ChunkSettings ==
    {[DefaultSettings EXCEPT !.chunk_target_seconds = t, !.chunk_words_per_second = w] :
        t \in {chunk_target_seconds, 1},
        w \in {chunk_words_per_second, [num |-> 1, den |-> 2]}}

\* scripts of narration and recap alone
PlainScripts ==
    {script \in Scripts :
        \A i \in 1..Len(script.chapters) :
            /\ script.chapters[i].figure_narration = <<>>
            /\ script.chapters[i].spoken_math = <<>>}

DInit ==
    /\ settings \in ChunkSettings
    /\ jobs = <<>>
    /\ lectures = <<>>
    /\ outputs = {}
    /\ fs = NoFiles
    /\ restarts = 0
    /\ FreshProcess
    /\ tjob = [status |-> "queued", updated_at |-> 0]
    /\ tnew = "queued"
    /\ tnow = 0
    /\ tres = [called |-> FALSE, raised |-> FALSE, job |-> tjob]
    /\ \E script \in PlainScripts, target_seconds \in 0..MaxTarget,
          words_per_second \in 0..1 :
          arg = [script |-> script, target_seconds |-> target_seconds,
                 words_per_second |-> words_per_second]
    /\ out = <<>>

\* one run; out keeps what it returned and the settings it ran under
DRun ==
    /\ Len(out) < 2
    /\ out' = Append(out,
                     [settings |-> settings,
                      chunks |-> generate_lecture_chunks(arg.script, arg.target_seconds,
                                                         arg.words_per_second)])
    /\ UNCHANGED <<settings, store, loop, thread, requests, restarts, history,
                   tjob, tnew, tnow, tres, arg>>

\* the environment changes and the settings are loaded anew
Reconfigure ==
    /\ Len(out) = 1
    /\ settings' \in ChunkSettings \ {settings}
    /\ UNCHANGED <<store, loop, thread, requests, restarts, history, harness>>

RerunSpec == DInit /\ [][DRun \/ Reconfigure]_vars

\* ----------------------------------- app/chunking.py: build_context_text
\* A stored chunk as build_context_text reads it: its text and approx_seconds.
\* The text returned is the tuple of the collected texts, which "\n".join
\* puts on a line each; these texts are non-empty and without blanks at
\* either end, as the Segmenter writes them, so .strip() leaves the join alone.
ChunkTexts == {"alpha", "bravo"}

StoredChunks == [text : ChunkTexts, approx_seconds : 0..MaxSeconds]

ChunkLists == UNION {[1..n -> StoredChunks] : n \in 0..MaxChunks}

RECURSIVE reverse(_)
reverse(s) == IF s = <<>> THEN <<>> ELSE Append(reverse(Tail(s)), Head(s))

\* (mutant) a loop that goes on while the total is at the window
RECURSIVE context_from_past_crossing(_, _, _, _, _, _)
context_from_past_crossing(chunks, cursor, window_seconds, total, collected, read) ==
    IF cursor >= 0 /\ total <= window_seconds
    THEN LET chunk == chunks[cursor + 1]
         IN  context_from_past_crossing(chunks, cursor - 1, window_seconds,
                          total + chunk.approx_seconds,
                          IF chunk.text # "" THEN Append(collected, chunk.text)
                          ELSE collected,
                          read \cup {cursor})
    ELSE [text |-> reverse(collected), approx_seconds |-> total, read |-> read]

\* while cursor >= 0 and total < window_seconds; cursor counts from 0 as in
\* the code, and read keeps the positions of the chunks the loop looked at
RECURSIVE context_from(_, _, _, _, _, _)
context_from(chunks, cursor, window_seconds, total, collected, read) ==
    IF cursor >= 0 /\ total < window_seconds
    THEN LET chunk == chunks[cursor + 1]
         IN  context_from(chunks, cursor - 1, window_seconds,
                          total + chunk.approx_seconds,
                          IF chunk.text # "" THEN Append(collected, chunk.text)
                          ELSE collected,
                          read \cup {cursor})
    ELSE [text |-> reverse(collected), approx_seconds |-> total, read |-> read]

\* (mutant) a window that starts at the chunk of the index itself
build_context_text_with_current(chunks, index, window_seconds) ==
    IF index < 0 \/ index >= Len(chunks)
    THEN [text |-> <<>>, approx_seconds |-> 0, read |-> {}]
    ELSE context_from(chunks, index, window_seconds, 0, <<>>, {})

\* build_context_text(chunks, index, window_seconds)
build_context_text(chunks, index, window_seconds) ==
    IF index <= 0 THEN [text |-> <<>>, approx_seconds |-> 0, read |-> {}]
    ELSE context_from(chunks, index - 1, window_seconds, 0, <<>>, {})

\* The endpoint passes an index >= 0 below len(chunks) and a window >= 1
\* (main.py 374, 383); the function is also called here with an index of -1
\* and of len(chunks).
XInit ==
    /\ settings = DefaultSettings
    /\ jobs = <<>>
    /\ lectures = <<>>
    /\ outputs = {}
    /\ fs = NoFiles
    /\ restarts = 0
    /\ FreshProcess
    /\ tjob = [status |-> "queued", updated_at |-> 0]
    /\ tnew = "queued"
    /\ tnow = 0
    /\ tres = [called |-> FALSE, raised |-> FALSE, job |-> tjob]
    /\ \E chunks \in ChunkLists, window_seconds \in 1..MaxWindow :
          \E index \in -1..Len(chunks) :
              arg = [chunks |-> chunks, index |-> index,
                     window_seconds |-> window_seconds]
    /\ out = <<>>

XContext ==
    /\ out = <<>>
    /\ out' = <<build_context_text(arg.chunks, arg.index, arg.window_seconds)>>
    /\ UNCHANGED <<settings, store, loop, thread, requests, restarts, history,
                   tjob, tnew, tnow, tres, arg>>

ContextSpec == XInit /\ [][XContext]_vars

\* ------------------------------------------ app/pipeline/tts.py: generate_audio
\* _chunk_text's default budget
max_chars == 3000

\* A line of the narration is its length in characters; its place in the
\* narration tells two lines of one length apart. script_to_narration puts a
\* chapter's whole narration on one line.
LineLengths == {0, 1499, 1500, 3000, 3001}

\* script_to_narration(script).splitlines(): the title line is always there
Narration == UNION {[1..n -> LineLengths] : n \in 1..MaxLines}

\* len("\n".join(buf))
RECURSIVE joined_len(_)
joined_len(buf) ==
    IF buf = <<>> THEN 0
    ELSE Head(buf).len + (IF Tail(buf) = <<>> THEN 0 ELSE 1) + joined_len(Tail(buf))

\* for line in text.splitlines(): ...; if buf: chunks.append("\n".join(buf))
RECURSIVE chunk_text_from(_, _, _, _, _)
chunk_text_from(lines, k, buf, size, chunks) ==
    IF k > Len(lines) THEN IF buf # <<>> THEN Append(chunks, buf) ELSE chunks
    ELSE LET line == [at |-> k, len |-> lines[k]]
         IN  IF size + line.len + 1 > max_chars /\ buf # <<>>
             THEN chunk_text_from(lines, k + 1, <<line>>, line.len + 1,
                                  Append(chunks, buf))
             ELSE chunk_text_from(lines, k + 1, Append(buf, line),
                                  size + line.len + 1, chunks)

\* _chunk_text(text): the segments, each the lines it joins
chunk_text(lines) == chunk_text_from(lines, 1, <<>>, 0, <<>>)

\* What _concat_with_ffmpeg finds: no ffmpeg on the path, a run that fails
\* (with or without an output file written so far), a run that succeeds
Ffmpeg == {"missing", "failed", "failed_partial", "done"}

TtsFormats == {"m4a", "mp3"}

part_path(idx) == <<"part", idx>>

output_path == <<"output", 0>>

playlist_path == <<"playlist", 0>>

\* (mutant) a playlist written after the part files were removed
generate_audio_unlinks_parts(lines, ffmpeg, openai_tts_format) ==
    LET chunks == chunk_text(lines)
        parts == [idx \in 1..Len(chunks) |-> part_path(idx)]
    IN  IF Len(parts) = 1
        THEN [sent |-> chunks, returned |-> output_path, files |-> {output_path},
              playlist |-> <<>>]
        ELSE [sent |-> chunks, returned |-> playlist_path, files |-> {playlist_path},
              playlist |-> parts]

\* generate_audio(client, script, output_path): the segments sent to the
\* collaborator, the path returned, the files it leaves in the output
\* directory and the lines of the playlist
generate_audio(lines, ffmpeg, openai_tts_format) ==
    LET chunks == chunk_text(lines)
        parts == [idx \in 1..Len(chunks) |-> part_path(idx)]
        written == Range(parts)
    IN  IF Len(parts) = 1
        THEN [sent |-> chunks, returned |-> output_path, files |-> {output_path},
              playlist |-> <<>>]
        ELSE IF ffmpeg = "done"
        THEN [sent |-> chunks, returned |-> output_path, files |-> {output_path},
              playlist |-> <<>>]
        ELSE IF openai_tts_format = "mp3"
        THEN [sent |-> chunks, returned |-> output_path, files |-> {output_path},
              playlist |-> <<>>]
        ELSE [sent |-> chunks, returned |-> playlist_path,
              files |-> written \cup {playlist_path}
                        \cup (IF ffmpeg = "failed_partial" THEN {output_path} ELSE {}),
              playlist |-> parts]

UInit ==
    /\ settings = DefaultSettings
    /\ jobs = <<>>
    /\ lectures = <<>>
    /\ outputs = {}
    /\ fs = NoFiles
    /\ restarts = 0
    /\ FreshProcess
    /\ tjob = [status |-> "queued", updated_at |-> 0]
    /\ tnew = "queued"
    /\ tnow = 0
    /\ tres = [called |-> FALSE, raised |-> FALSE, job |-> tjob]
    /\ \E lines \in Narration, ffmpeg \in Ffmpeg, openai_tts_format \in TtsFormats :
          arg = [lines |-> lines, ffmpeg |-> ffmpeg,
                 openai_tts_format |-> openai_tts_format]
    /\ out = <<>>

UAudio ==
    /\ out = <<>>
    /\ out' = <<generate_audio(arg.lines, arg.ffmpeg, arg.openai_tts_format)>>
    /\ UNCHANGED <<settings, store, loop, thread, requests, restarts, history,
                   tjob, tnew, tnow, tres, arg>>

AudioSpec == UInit /\ [][UAudio]_vars

\* --------------------------------- apply_transition on a free-standing Job
TInit ==
    /\ settings = DefaultSettings
    /\ jobs = <<>>
    /\ lectures = <<>>
    /\ outputs = {}
    /\ fs = NoFiles
    /\ restarts = 0
    /\ FreshProcess
    /\ tjob \in [status : JobStatus, updated_at : Times]
    /\ tnew \in JobStatus
    /\ tnow \in Times
    /\ tres = [called |-> FALSE, raised |-> FALSE, job |-> tjob]
    /\ arg = <<>>
    /\ out = <<>>

TApply ==
    /\ ~tres.called
    /\ LET r == apply_transition(tjob, tnew, tnow)
       IN  tres' = [called |-> TRUE, raised |-> r.raised, job |-> r.job]
    /\ UNCHANGED <<settings, store, loop, thread, requests, restarts, history,
                   tjob, tnew, tnow, arg, out>>

TSpec == TInit /\ [][TApply]_vars

\* ------------------------------------------------------------------ claims
Terminal == {"done", "failed"}

NonTerminal == JobStatus \ Terminal

\* C1: apply_transition succeeds exactly on the eleven edges of the table and
\* raises on each of the other 38 of the 49 status pairs; a call that succeeds
\* leaves the job in the new status.
C1_Edges ==
    {<<"queued", "extracting">>, <<"queued", "failed">>,
     <<"extracting", "scripting">>, <<"extracting", "failed">>,
     <<"scripting", "tts">>, <<"scripting", "done">>, <<"scripting", "failed">>,
     <<"tts", "syncing">>, <<"tts", "failed">>,
     <<"syncing", "done">>, <<"syncing", "failed">>}

C1_ElevenEdges ==
    tres.called =>
        /\ ~tres.raised <=> <<tjob.status, tnew>> \in C1_Edges
        /\ ~tres.raised => tres.job.status = tnew

C1_Witness ==
    /\ tres.called /\ tres.raised
    /\ tjob.status = "done" /\ tnew = "failed"

\* C2: every change of a stored Job's status goes along an edge of the
\* transition table; a job that is done or failed keeps its status.
C2_StatusFollowsEdges ==
    [][\A j \in DOMAIN jobs :
          jobs'[j].status # jobs[j].status =>
              jobs'[j].status \in VALID_TRANSITIONS[jobs[j].status]]_vars

\* C3: once a stage has raised, no later stage of the job runs, and when the
\* except clause has run the stored job is failed with user_error and error
\* set and with script_path and audio_path as they were stored before.
C3_FailureIsTerminal ==
    [][\A j \in Ids :
          pc[j] = "except" =>
              /\ pc'[j] \in {"except", None}
              /\ (pc'[j] = None /\ restarts' = restarts) =>
                    /\ jobs'[j].status = "failed"
                    /\ jobs'[j].user_error # None
                    /\ jobs'[j].error # None
                    /\ jobs'[j].script_path = jobs[j].script_path
                    /\ jobs'[j].audio_path = jobs[j].audio_path]_vars

C3_Witness ==
    \E j \in DOMAIN jobs :
        /\ jobs[j].status = "failed"
        /\ jobs[j].script_path
        /\ jobs[j].audio_path
        /\ jobs[j].error = "StageError"

\* The startup hook has just run.
StartupStep == ~started /\ started'

\* The worker of this process has been stopped, or the process has ended.
WorkerGone == stop \/ ~started

\* C4: startup re-enqueues every job stored in a non-terminal
\* status, and every such job of a running server reaches done or failed.
C4_AllNonTerminalRecovered ==
    /\ [][StartupStep =>
             \A j \in DOMAIN jobs :
                 jobs[j].status \in NonTerminal => j \in Range(queue')]_vars
    /\ \A j \in Ids :
          (started /\ j \in DOMAIN jobs /\ jobs[j].status \in NonTerminal)
              ~> ((j \in DOMAIN jobs /\ jobs[j].status \in Terminal) \/ WorkerGone)

\* C5: a submitted job (stored as queued, its id on the queue) reaches done or
\* failed unless the worker is stopped or the process ends first.
C5_SubmittedTerminates ==
    \A j \in Ids :
        (j \in DOMAIN jobs /\ jobs[j].status = "queued" /\ j \in Range(queue))
            ~> ((j \in DOMAIN jobs /\ jobs[j].status \in Terminal) \/ WorkerGone)

C5_Witness ==
    \E j \in DOMAIN jobs :
        /\ j \in Range(enqueued) /\ j \notin recovered
        /\ jobs[j].status = "done"
        /\ <<j, "extracted">> \in outputs

\* C6: a stored job that is done has its script_path set, and the script file
\* and the chunk file of its id are on disk.
C6_DoneHasArtifacts ==
    \A j \in DOMAIN jobs :
        jobs[j].status = "done" =>
            /\ jobs[j].script_path
            /\ j \in fs.script
            /\ j \in fs.chunks

C6_Witness ==
    \E j \in DOMAIN jobs :
        /\ jobs[j].status = "done"
        /\ <<j, "extracted">> \in outputs
        /\ pc[j] = "feed"

IsPrefix(p, q) == Len(p) <= Len(q) /\ \A i \in 1..Len(p) : p[i] = q[i]

\* C7: at most one job is inside process_job; ids are taken off the queue in
\* the order they were put on it; and every id taken before the latest one
\* has finished its processing.
C7_OneAtATimeInOrder ==
    /\ Cardinality({j \in Ids : pc[j] # None}) <= 1
    /\ IsPrefix(dequeued, enqueued)
    /\ \A i \in 1..Len(dequeued) : i < Len(dequeued) => pc[dequeued[i]] = None

C7_Witness ==
    /\ Len(dequeued) > 1
    /\ pc[dequeued[Len(dequeued)]] = "extract"
    /\ dequeued[1] # dequeued[Len(dequeued)]
    /\ jobs[dequeued[1]].status = "done"

\* C8 as stated: no stored job shows script_path or audio_path together with
\* the status held while the stage producing it was still running.
C8_OutputWithNewStatus ==
    \A j \in DOMAIN jobs :
        /\ jobs[j].script_path => jobs[j].status \notin {"queued", "extracting", "scripting"}
        /\ jobs[j].audio_path =>
              jobs[j].status \notin {"queued", "extracting", "scripting", "tts"}

\* C8 as amended: a stage runs only with the status and the output reference of
\* the stages before it stored; audio_path is stored together with syncing;
\* script_path is stored in a commit of its own, while the status is still
\* scripting, and never earlier.
C8_StoredBeforeNextStage ==
    /\ \A j \in Ids :
          /\ pc[j] = "extract" => jobs[j].status = "extracting"
          /\ pc[j] \in {"script", "chunk"} =>
                jobs[j].status = "scripting" /\ <<j, "extracted">> \in outputs
          /\ pc[j] = "branch" => jobs[j].status = "scripting" /\ jobs[j].script_path
          /\ pc[j] = "tts" => jobs[j].status = "tts" /\ jobs[j].script_path
          /\ pc[j] = "deliver" => jobs[j].status = "syncing" /\ jobs[j].audio_path
    /\ \A j \in DOMAIN jobs :
          /\ jobs[j].script_path => jobs[j].status \notin {"queued", "extracting"}
          /\ jobs[j].audio_path =>
                jobs[j].status \notin {"queued", "extracting", "scripting", "tts"}

C8_Witness ==
    \E j \in DOMAIN jobs :
        /\ pc[j] = "branch"
        /\ jobs[j].status = "scripting"
        /\ jobs[j].script_path

\* C9: within one process_job the stages that have finished are an initial
\* part of extract, script, chunk, tts, deliver; a stage starts with exactly
\* the stages before it finished; tts and deliver run only with audio
\* generation enabled; and the job is done only after all that apply.
FixedOrder == <<"extract", "script", "chunk", "tts", "deliver">>

StagePositions == {"extract", "script", "chunk", "tts", "deliver"}

C9_FixedStageOrder ==
    \A j \in Ids :
        /\ IsPrefix(ran[j], FixedOrder)
        /\ pc[j] \in StagePositions => FixedOrder[Len(ran[j]) + 1] = pc[j]
        /\ (pc[j] = "tts" \/ Len(ran[j]) > 3) => settings.enable_audio_generation
        /\ pc[j] = "feed" =>
              ran[j] = IF settings.enable_audio_generation
                       THEN FixedOrder
                       ELSE SubSeq(FixedOrder, 1, 3)

C9_Witness ==
    \E j \in Ids : pc[j] = "deliver" /\ ran[j] = SubSeq(FixedOrder, 1, 4)

\* C10: a stored job becomes done only from scripting, with audio generation
\* disabled and the script and chunk files written, or from syncing, with
\* audio generation enabled and the tts and deliver stages finished.
C10_DoneAfterFinalStage ==
    [][\A j \in DOMAIN jobs :
          (jobs[j].status # "done" /\ jobs'[j].status = "done") =>
              IF settings.enable_audio_generation
              THEN /\ jobs[j].status = "syncing"
                   /\ ran[j] = FixedOrder
                   /\ jobs[j].audio_path
              ELSE /\ jobs[j].status = "scripting"
                   /\ ran[j] = SubSeq(FixedOrder, 1, 3)
                   /\ j \in fs.script /\ j \in fs.chunks
                   /\ jobs[j].script_path]_vars

C10_Witness ==
    \E j \in DOMAIN jobs :
        /\ pc[j] = "feed"
        /\ jobs[j].status = "done"
        /\ jobs[j].audio_path
        /\ settings.enable_audio_generation

\* C11: process_job on an id that names no Job returns with every Job row,
\* Lecture row, output record and file as it was, and leaves Worker.run at the
\* top of its loop, from where it takes the next id.
C11_MissingJobIsNoOp ==
    [][\A j \in Ids :
          (pc[j] = "load" /\ j \notin DOMAIN jobs /\ pc'[j] # "load"
                /\ restarts' = restarts) =>
              /\ store' = store
              /\ pc'[j] = None
              /\ task' = "top"
              /\ ~stop' => queue' = queue]_vars

C11_Witness ==
    /\ Len(dequeued) > 1
    /\ dequeued[1] \notin DOMAIN jobs
    /\ dequeued[2] \in DOMAIN jobs
    /\ pc[dequeued[2]] = "extract"

\* C12: once the stop event is set the worker takes no further id off the
\* queue; a process_job that is running is not cut short by the stop, it goes
\* on step by step to its return; and the process exits (stop() has returned)
\* only when Worker.run has ended.
C12_StopHaltsDequeues ==
    [][restarts' = restarts =>
          /\ stop => dequeued' = dequeued
          /\ \A j \in Ids :
                (stop' /\ pc[j] # None) =>
                    /\ task' = IF pc'[j] = None THEN "top" ELSE "busy"
                    /\ pc'[j] = None => pc[j] \in {"feed", "except"}]_vars

\* C13: in every stored Job, user_error, error and traceback are set only if
\* the status is failed, and a failed Job has user_error and error both set.
C13_ErrorFieldsIffFailed ==
    \A j \in DOMAIN jobs :
        /\ (jobs[j].user_error # None \/ jobs[j].error # None
                \/ jobs[j].traceback # None) => jobs[j].status = "failed"
        /\ jobs[j].status = "failed" =>
              jobs[j].user_error # None /\ jobs[j].error # None

C13_Witness ==
    \E j \in DOMAIN jobs :
        /\ jobs[j].status = "failed"
        /\ jobs[j].error = "RuntimeError"
        /\ jobs[j].user_error = "Processing failed"

\* C14: the stored script_path of a Job becomes set only by the commit that
\* follows the script and chunk stages, its audio_path only by the commit that
\* follows the synthesize-audio stage, and a path that is set stays set in
\* every later step, the move to failed included.
C14_PathsWrittenOnceByStage ==
    [][\A j \in DOMAIN jobs :
          /\ jobs[j].script_path => jobs'[j].script_path
          /\ jobs[j].audio_path => jobs'[j].audio_path
          /\ (~jobs[j].script_path /\ jobs'[j].script_path) =>
                pc[j] = "commit_script" /\ ran[j] = SubSeq(FixedOrder, 1, 3)
          /\ (~jobs[j].audio_path /\ jobs'[j].audio_path) =>
                pc[j] = "commit_syncing" /\ ran[j] = SubSeq(FixedOrder, 1, 4)]_vars

C14_Witness ==
    \E j \in DOMAIN jobs :
        /\ jobs[j].status = "failed"
        /\ jobs[j].script_path
        /\ ~jobs[j].audio_path
        /\ <<j, "audio">> \notin outputs

\* C15: in the store, the Lecture of a Job is done exactly when the Job is
\* done, and failed exactly when the Job is failed.
C15_LectureTerminalIffJob ==
    \A j \in DOMAIN jobs \cap DOMAIN lectures :
        /\ lectures[j].status = "done" <=> jobs[j].status = "done"
        /\ lectures[j].status = "failed" <=> jobs[j].status = "failed"

\* C15 as amended: the Lecture is failed exactly when the Job is failed; a
\* done Job has a done Lecture; and the Lecture is done already while the Job
\* is in tts or syncing, never earlier.
C15_LectureFollowsJob ==
    \A j \in DOMAIN jobs :
        /\ j \in DOMAIN lectures
        /\ lectures[j].status = "failed" <=> jobs[j].status = "failed"
        /\ jobs[j].status = "done" => lectures[j].status = "done"
        /\ lectures[j].status = "done" <=> jobs[j].status \in {"tts", "syncing", "done"}
        /\ lectures[j].status = map_lecture_status(jobs[j].status)

C15_Witness ==
    \E j \in DOMAIN jobs :
        /\ jobs[j].status = "tts"
        /\ lectures[j].status = "done"
        /\ pc[j] = "tts"

\* C16: a step of a query endpoint leaves every Job row as it is, whatever
\* the worker is doing; and a Job row that exists changes only in a step of
\* process_job on that job.
C16_OnlyWorkerWritesJobs ==
    [][/\ Query => jobs' = jobs
       /\ \A j \in DOMAIN jobs : jobs'[j] # jobs[j] => pc[j] # None]_vars

C16_Witness ==
    \E j \in DOMAIN jobs :
        /\ pc[j] = "begin"
        /\ jobs[j].status = "queued"
        /\ \E k \in DOMAIN lectures : k # j /\ jobs[k].status = "done"
                /\ <<k, "script">> \notin outputs

\* C17: get_job gives the same response for two Job rows that differ only in
\* error and traceback, and the only error text in it is the generic summary.
C17_ResponseHidesDiagnostic ==
    out # <<>> =>
        /\ out[1] = out[2]
        /\ out[1].user_error \in {None, "Processing failed"}

C17_Witness ==
    /\ out # <<>>
    /\ arg[2].error # arg[3].error
    /\ arg[2].traceback # arg[3].traceback
    /\ out[1].status = "failed"

\* C18: when merge_chunks_to_script raises, the script stage does not raise:
\* it yields the fallback script, which has one chapter per extraction unit,
\* chapter i being Section i with the summary of unit i (or the stand-in text
\* when the unit has none).
C18_FallbackNeverFails ==
    (out # <<>> /\ arg.merge_raises) =>
        /\ out[1].raised = None
        /\ out[1].fallback
        /\ Len(out[1].chapters) = Len(arg.chunks)
        /\ \A i \in 1..Len(arg.chunks) :
              /\ out[1].chapters[i].name = <<"Section", i>>
              /\ out[1].chapters[i].narration \in {arg.chunks[i].chunk_summary, SummaryMissing}

\* How often the request `call` was made.
Count(calls, call) == Cardinality({i \in DOMAIN calls : calls[i] = call})

C20_DenseChunkIds ==
    out # <<>> =>
        \A i \in 1..Len(out[1]) : out[1][i].chunk_id = i - 1

C20_Witness ==
    /\ out # <<>>
    /\ Len(out[1]) = 4
    /\ out[1][1].spoken_math = <<>> /\ out[1][2].spoken_math = <<>>
    /\ out[1][1].section_name = out[1][2].section_name
    /\ out[1][3].spoken_math # <<>>
    /\ out[1][4].section_name = <<"Recap", 0>>

\* The pieces of a chunk list in list order, each with the position of the
\* chunk that holds it.
RECURSIVE PiecesFrom(_, _)
PiecesFrom(chunks, n) ==
    IF n > Len(chunks) THEN <<>>
    ELSE [k \in 1..Len(chunks[n].text) |-> [chunk |-> n, piece |-> chunks[n].text[k]]]
         \o PiecesFrom(chunks, n + 1)

Pieces(chunks) == PiecesFrom(chunks, 1)

\* C21: for every chapter, the narration sentences found in the returned
\* chunks, read in list order, are exactly the sentences of the chapter's
\* narration, each once and in the original order, and every one of them lies
\* in a narration chunk of its own chapter (none dropped, duplicated,
\* reordered or moved to another section's chunk).
C21_NarrationKeptInOrder ==
    out # <<>> =>
        \A i \in 1..Len(arg.script.chapters) :
            LET s == arg.script.chapters[i].narration.sentences
                told == SelectSeq(Pieces(out[1]),
                                  LAMBDA p : p.piece.src = "narration" /\ p.piece.at[1] = i)
            IN  /\ Len(told) = Len(s)
                /\ \A k \in 1..Len(s) :
                      /\ told[k].piece.at = <<i, k>>
                      /\ told[k].piece.words = s[k]
                      /\ out[1][told[k].chunk].section_name = <<"chapter", i>>
                      /\ out[1][told[k].chunk].spoken_math = <<>>

\* a narration of two sentences told in two chunks, the second sentence run
\* together with the figure text that follows it, and a recap after them
C21_Witness ==
    /\ out # <<>>
    /\ Len(arg.script.chapters) = 1
    /\ arg.script.chapters[1].narration = [sentences |-> <<2, 2>>, open |-> TRUE]
    /\ arg.script.final_recap # <<>>
    /\ Len(out[1]) = 3
    /\ Len(out[1][1].text) = 1
    /\ Len(out[1][2].text) = 2
    /\ Len(split_sentences(out[1][2].text)) = 1
    /\ out[1][3].section_name = <<"Recap", 0>>

\* C22: a narration chunk that another narration chunk of the same section
\* follows has approx_seconds >= the target; every narration chunk without its
\* last sentence is estimated below the target (it was closed at the first
\* sentence that reached it); and the pieces of one chunk all come from one
\* section.
C22_ClosedAtFirstCrossing ==
    out # <<>> =>
        LET chunks == out[1]
            target == target_or_setting(arg.target_seconds)
            wps == wps_or_setting(arg.words_per_second)
        IN  \A n \in 1..Len(chunks) :
                chunks[n].spoken_math = <<>> =>
                    LET sentences == split_sentences(chunks[n].text)
                        shorter == join(SubSeq(sentences, 1, Len(sentences) - 1))
                    IN  /\ (\E m \in (n + 1)..Len(chunks) :
                               /\ chunks[m].spoken_math = <<>>
                               /\ chunks[m].section_name = chunks[n].section_name)
                           => chunks[n].approx_seconds >= target
                        /\ estimate_seconds(word_count(shorter), wps) < target
                        /\ \A a, b \in Range(chunks[n].text) :
                              /\ a.at[1] = b.at[1]
                              /\ (a.src = "recap") <=> (b.src = "recap")

\* a chunk of two sentences closed at the second one, which brought the
\* estimate from 1 second to the target of 2, with more of the chapter after it
C22_Witness ==
    /\ out # <<>>
    /\ arg.target_seconds = 2
    /\ Len(out[1]) >= 2
    /\ Len(split_sentences(out[1][1].text)) = 2
    /\ out[1][1].approx_seconds = 2
    /\ out[1][2].spoken_math = <<>>
    /\ out[1][2].section_name = out[1][1].section_name
    /\ estimate_seconds(out[1][1].text[1].words, wps_or_setting(arg.words_per_second)) = 1

\* C23: every chunk that generate_lecture_chunks returns has a non-empty text
\* and approx_seconds >= 1 (estimate_seconds gives at least 1 for every
\* non-empty text).
C23_ChunksLastASecond ==
    out # <<>> =>
        \A n \in 1..Len(out[1]) :
            /\ out[1][n].text # <<>>
            /\ out[1][n].approx_seconds >= 1

\* the section of name a comes before the section of name b in the script
Before(a, b) ==
    \/ a[1] = "chapter" /\ b[1] = "Recap"
    \/ a[1] = "chapter" /\ b[1] = "chapter" /\ a[2] < b[2]

MathSources == {"spoken", "intuition"}

\* C24: a chapter with a non-blank spoken line or intuition has exactly one
\* chunk with spoken_math set, a chapter without has none; that chunk comes
\* after every other chunk of its chapter and before every chunk of a later
\* section, and it holds the chapter's math lines and nothing else; a chunk
\* without spoken_math holds no math line.
C24_OneMathChunkAfterNarration ==
    out # <<>> =>
        LET chunks == out[1]
        IN  /\ \A i \in 1..Len(arg.script.chapters) :
                  LET items == arg.script.chapters[i].spoken_math
                      lines == {<<src, k>> \in MathSources \X DOMAIN items :
                                   items[k][src] # <<>>}
                      math == {n \in 1..Len(chunks) :
                                  /\ chunks[n].section_name = <<"chapter", i>>
                                  /\ chunks[n].spoken_math # <<>>}
                  IN  /\ Cardinality(math) = IF lines # {} THEN 1 ELSE 0
                      /\ \A n \in math :
                            /\ chunks[n].text = chunks[n].spoken_math
                            /\ {<<p.src, p.at[2]>> : p \in Range(chunks[n].text)} = lines
                            /\ Len(chunks[n].text) = Cardinality(lines)
                            /\ \A p \in Range(chunks[n].text) : p.at[1] = i
                            /\ \A m \in 1..Len(chunks) :
                                  /\ chunks[m].section_name = <<"chapter", i>> => m <= n
                                  /\ Before(<<"chapter", i>>, chunks[m].section_name)
                                        => n < m
            /\ \A n \in 1..Len(chunks) :
                  chunks[n].spoken_math = <<>> =>
                      \A p \in Range(chunks[n].text) : p.src \notin MathSources

\* a chapter told in one narration chunk, then its math chunk of two lines
\* (the spoken line and the intuition), then the recap
C24_Witness ==
    /\ out # <<>>
    /\ Len(out[1]) = 3
    /\ out[1][1].spoken_math = <<>>
    /\ out[1][1].section_name = <<"chapter", 1>>
    /\ Len(out[1][2].spoken_math) = 2
    /\ out[1][2].section_name = <<"chapter", 1>>
    /\ out[1][3].section_name = <<"Recap", 0>>

\* the positions of the chunks of chapter i without spoken_math
NarrationChunks(chunks, i) ==
    {n \in 1..Len(chunks) :
        chunks[n].section_name = <<"chapter", i>> /\ chunks[n].spoken_math = <<>>}

\* the positions of the chunks of chapter i with spoken_math
MathChunks(chunks, i) ==
    {n \in 1..Len(chunks) :
        chunks[n].section_name = <<"chapter", i>> /\ chunks[n].spoken_math # <<>>}

C26_SameArgumentsSameChunks ==
    Len(out) = 2 => out[1].chunks = out[2].chunks

\* C26 amended: the two runs return the same chunks when every argument that
\* is 0 or omitted finds the same setting at both runs.
C26_SameEffectiveParameters ==
    (/\ Len(out) = 2
     /\ arg.target_seconds = 0
           => out[1].settings.chunk_target_seconds = out[2].settings.chunk_target_seconds
     /\ arg.words_per_second = 0
           => out[1].settings.chunk_words_per_second
                 = out[2].settings.chunk_words_per_second)
    => out[1].chunks = out[2].chunks

\* both arguments given, both settings changed between the runs, and the same
\* two chunks returned twice
C26_Witness ==
    /\ Len(out) = 2
    /\ arg.target_seconds # 0
    /\ arg.words_per_second # 0
    /\ out[1].settings.chunk_target_seconds # out[2].settings.chunk_target_seconds
    /\ out[1].settings.chunk_words_per_second # out[2].settings.chunk_words_per_second
    /\ Len(out[1].chunks) = 2
    /\ out[1].chunks = out[2].chunks

\* the durations of the chunks at positions a .. b, counted from 0
RECURSIVE Duration(_, _, _)
Duration(chunks, a, b) ==
    IF a > b THEN 0 ELSE chunks[a + 1].approx_seconds + Duration(chunks, a + 1, b)

\* the largest position whose chunks up to index - 1 last the window, or 0
WindowStart(chunks, index, window_seconds) ==
    LET enough == {j \in 0..(index - 1) :
                      Duration(chunks, j, index - 1) >= window_seconds}
    IN  IF enough = {} THEN 0 ELSE CHOOSE j \in enough : \A i \in enough : i <= j

C28_NothingBeforeFirst ==
    (out # <<>> /\ arg.index <= 0) =>
        /\ out[1].text = <<>>
        /\ out[1].approx_seconds = 0
        /\ out[1].read = {}

\* the context of the first chunk of a list whose chunks have durations
C28_Witness ==
    /\ out # <<>>
    /\ arg.index = 0
    /\ Len(arg.chunks) = 2
    /\ arg.chunks[1].approx_seconds = 2
    /\ out[1].text = <<>>
    /\ out[1].approx_seconds = 0

\* C29: a call of apply_transition for a pair that is not in the table raises
\* and leaves the job as it was: the same status and the same updated_at.
C29_RejectedLeavesJob ==
    (tres.called /\ tnew \notin VALID_TRANSITIONS[tjob.status]) =>
        /\ tres.raised
        /\ tres.job.status = tjob.status
        /\ tres.job.updated_at = tjob.updated_at

\* a job that is queued is asked to be done, at a time other than its
\* updated_at
C29_Witness ==
    /\ tres.called /\ tres.raised
    /\ tjob.status = "queued" /\ tnew = "done"
    /\ tnow # tjob.updated_at
    /\ tres.job = tjob

\* C30: a stored Job's updated_at is never earlier than its created_at and
\* never decreases, and every step that changes the stored status also moves
\* updated_at forward: no stored state has a new status with the updated_at
\* of the status before it.
C30_StampedWithStatus ==
    /\ [](\A j \in DOMAIN jobs : jobs[j].updated_at >= jobs[j].created_at)
    /\ [][\A j \in DOMAIN jobs \cap DOMAIN jobs' :
             /\ jobs'[j].created_at = jobs[j].created_at
             /\ jobs'[j].updated_at >= jobs[j].updated_at
             /\ jobs'[j].status # jobs[j].status
                   => jobs'[j].updated_at > jobs[j].updated_at]_vars

\* a job stored as done after its three transitions, and one stored as failed
C30_Witness ==
    \E j, k \in DOMAIN jobs :
        /\ jobs[j].status = "done"
        /\ jobs[j].updated_at = jobs[j].created_at + 3
        /\ jobs[k].status = "failed"
        /\ jobs[k].updated_at > jobs[k].created_at

\* C31: every segment sent to the speech-synthesis collaborator is at most
\* 3000 characters long, and the segments in order hold the lines of the
\* narration, each once and in order.
C31_SegmentsWithinBudget ==
    out # <<>> =>
        /\ \A n \in 1..Len(out[1].sent) : joined_len(out[1].sent[n]) <= max_chars
        /\ join(out[1].sent) = [k \in 1..Len(arg.lines) |-> [at |-> k, len |-> arg.lines[k]]]

\* C32: generate_audio returns the output path or the playlist; the playlist
\* is returned only when there are several segments, ffmpeg did not
\* concatenate them and the format is not mp3, and it lists the part file of
\* every segment in segment order, all of which exist; when the output path
\* is returned that file exists and no part file does.
C32_OneFileOrPlaylist ==
    out # <<>> =>
        LET r == out[1]
            parts == {part_path(idx) : idx \in 1..Len(r.sent)}
        IN  /\ r.returned \in {output_path, playlist_path}
            /\ r.returned = playlist_path =>
                  /\ Len(r.sent) > 1
                  /\ arg.ffmpeg # "done" /\ arg.openai_tts_format # "mp3"
                  /\ r.playlist = [idx \in 1..Len(r.sent) |-> part_path(idx)]
                  /\ parts \subseteq r.files
                  /\ playlist_path \in r.files
            /\ r.returned = output_path =>
                  /\ output_path \in r.files
                  /\ parts \cap r.files = {}

\* three segments, no ffmpeg, format m4a: a playlist of three part files
C32_Witness ==
    /\ out # <<>>
    /\ out[1].returned = playlist_path
    /\ Len(out[1].playlist) = 3
    /\ arg.ffmpeg = "missing"

\* C33: no exception raised while a job is processed ends the Worker loop
\* (Worker.run never ends with an exception), and a job whose processing was
\* left is stored as failed unless it finished as done.
C33_NoExceptionEndsLoop ==
    /\ task # "raised"
    /\ \A j \in Range(dequeued) \cap DOMAIN jobs :
          pc[j] = None => jobs[j].status \in Terminal

\* C34: while the Worker processes an id whose Job was done or failed when it
\* was dequeued (no stage has run for it in this call), the stored Job keeps
\* its status, its output references, its error fields and its updated_at.
C34_RedeliveryLeavesJob ==
    [][\A j \in DOMAIN jobs :
          (jobs[j].status \in {"done", "failed"} /\ pc[j] # None /\ ran[j] = <<>>)
              => jobs'[j] = jobs[j]]_vars

\* C35: when analyze_pdf_chunks returns, its results are windows
\* <<start, end>> that begin at page 1, follow one another without gap or
\* overlap, hold between 1 and max_pages_per_chunk pages each and end at page
\* N (there is none for N = 0); the analysis requests were made for these
\* windows in this order, one each; so the loop has ended after at most N
\* rounds.
C35_WindowsCoverPages ==
    (out # <<>> /\ out[1].raised = None) =>
        LET w == out[1].results
            asked == SelectSeq(out[1].calls, LAMBDA c : c[1] = "analyze")
        IN  /\ Len(w) <= arg.total_pages
            /\ (arg.total_pages = 0) <=> (w = <<>>)
            /\ w # <<>> => w[1][1] = 1 /\ w[Len(w)][2] = arg.total_pages
            /\ \A i \in 1..Len(w) :
                  /\ w[i][1] <= w[i][2]
                  /\ w[i][2] - w[i][1] + 1 <= arg.max_pages_per_chunk
                  /\ i > 1 => w[i][1] = w[i - 1][2] + 1
            /\ asked = [i \in 1..Len(w) |-> <<"analyze", w[i][1]>>]

\* two pages in windows of one page: two results, in page order
C35_Witness ==
    /\ out # <<>>
    /\ out[1].raised = None
    /\ arg.total_pages = 2
    /\ arg.max_pages_per_chunk = 1
    /\ out[1].results = <<<<1, 1>>, <<2, 2>>>>

\* C36: whenever the except clause is about to run for a job whose status (on
\* the session's object) is queued, extracting, scripting, tts or syncing,
\* apply_transition(job, failed) does not raise, so the clause's own
\* assignment of the status is not executed.
C36_HandlerGoesThroughTable ==
    \A j \in Ids :
        (pc[j] = "except" /\ sess[j].job.status \in NonTerminal) =>
            ~apply_transition(sess[j].job, "failed", utcnow(sess[j].job.updated_at)).raised

\* the script stage has raised for a job that is scripting
C36_Witness ==
    \E j \in Ids :
        /\ pc[j] = "except"
        /\ sess[j].job.status = "scripting"
        /\ ran[j] = <<"extract">>

\* C37: every id on the queue, and every id the Worker has just dequeued and
\* is about to load, names a stored Job; and at the step that puts an id on
\* the queue its Job is stored with status queued.
C37_EnqueuedAfterCommit ==
    /\ [](\A j \in Range(queue) \cup {k \in Ids : pc[k] = "load"} : j \in DOMAIN jobs)
    /\ [][Len(enqueued') > Len(enqueued) =>
             \A i \in (Len(enqueued) + 1)..Len(enqueued') :
                 /\ enqueued'[i] \in DOMAIN jobs
                 /\ jobs[enqueued'[i]].status = "queued"]_vars

\* the Worker is about to load one uploaded job while the id of another,
\* committed as queued, waits on the queue
C37_Witness ==
    \E j, k \in Ids :
        /\ pc[k] = "load"
        /\ j \in Range(queue)
        /\ jobs[j].status = "queued"
        /\ recovered = {}

\* C38: a Job whose id waits on the queue is stored as queued; the end of a
\* process leaves the stored Jobs as they are; the startup hook puts the id
\* of every Job stored as queued on the new queue exactly once and no other
\* id; within a process no id is enqueued twice; and a Job stored as queued
\* in a started server is on the queue, about to be put on it by its upload,
\* or in the Worker's hands: none is lost.
C38_QueuedSurvivesRestart ==
    /\ [](\A j \in Range(queue) : jobs[j].status = "queued")
    /\ [](\A i, k \in DOMAIN enqueued : enqueued[i] = enqueued[k] => i = k)
    /\ [](started =>
            \A j \in DOMAIN jobs :
                jobs[j].status = "queued" => (j \in Range(queue) \cup up \/ pc[j] # None))
    /\ [][/\ restarts' # restarts => jobs' = jobs
          /\ (~started /\ started') =>
                \A j \in DOMAIN jobs :
                    Count(queue', j) = IF jobs[j].status = "queued" THEN 1 ELSE 0]_vars

\* after a restart the startup hook has put two queued jobs back on the queue
\* (the Worker takes one id at a time, so one of them at least was waiting)
C38_Witness ==
    /\ restarts = 1
    /\ started
    /\ Cardinality(recovered) = 2
    /\ Len(queue) = 2
    /\ \A j \in recovered : jobs[j].status = "queued" /\ Count(queue, j) = 1

\* C39: a call of Worker.start() that finds a task leaves it as it is; only
\* the loop itself takes the task back to the top of the loop; and there is
\* one consumer: at most one process_job thread at a time, and the loop
\* awaits it while it runs.
C39_OneLoop ==
    /\ [](\A i \in DOMAIN out : out[i].before # None => out[i].after = out[i].before)
    /\ [](\A j, k \in Ids : (pc[j] # None /\ pc[k] # None) => j = k)
    /\ []((\E j \in Ids : pc[j] # None) => task = "busy")
    /\ [][(task' = "top" /\ task # "top") => task \in {None, "waiting", "busy"}]_vars

\* start() is called a second and a third time, the last one while the loop
\* awaits a job in process and another id waits on the queue
C39_Witness ==
    /\ Len(out) = 2
    /\ out[1].before # None
    /\ out[2].before = "busy"
    /\ task = "busy"
    /\ queue # <<>>
    /\ \E j \in Ids : pc[j] = "extract"

====
